---------------------------- MODULE Spec2Model ----------------------------
(***************************************************************************)
(* Plan-execute workflow (agents/workflow.py, agents/orchestrator_agent.py)*)
(* and the retrieval planner (agents/retrieval_agent.py) over the chunk    *)
(* store search (Document_processor/Chunker.py).                           *)
(*                                                                         *)
(* Text is a sequence of one-character strings, so that upper(),           *)
(* startswith(), strip() and slicing are computed, not assumed.            *)
(* Python's None is the string "None" where the other values are strings,  *)
(* and an explicit record for the optional filter mapping.                 *)
(***************************************************************************)
EXTENDS Integers, Sequences, FiniteSets, TLC

VARIABLES
    query,                \* AgentState.query
    plan,                 \* AgentState.plan
    context,              \* AgentState.context
    current_step,         \* AgentState.current_step
    final_answer,         \* AgentState.final_answer
    validation,           \* the validation the synthesis node returned, if any
    retrieval_history,    \* AgentState.retrieval_history
    calculation_results,  \* AgentState.calculation_results (function from key to result)
    node,                 \* the graph node that runs next, "finish" (END) or "raised"
    trace,                \* nodes run so far, each with current_step after it ran
    plans_created,        \* number of create_plan calls of this query
    store,                \* the chunks held by the collection
    search_log,           \* search_chunks calls of the last execute_retrieval
    last_retrieval,       \* inputs and result of the last execute_retrieval
    last_calculation,     \* inputs and result of the last perform_calculation
    last_synthesis,       \* outcomes of the completions of the last synthesis visit
    exception,            \* the exception graph.invoke and execute_query re-raise
    response,             \* what analyze_query returned
    document,             \* processed_doc, the converted document being chunked
    sections,             \* the sections extract_sections_with_pages found
    pending,              \* the sections still to be chunked
    all_chunks,           \* the chunks made so far, in order
    uuids,                \* number of identifiers uuid4 has given
    pc,                   \* where the processing of the document stands
    call_log,             \* the calls of process_document_for_storage so far
    last_search,          \* the last call of search_chunks on its own
    last_plan,            \* the last call of create_plan on its own
    states,               \* the AgentState of each concurrent graph.invoke
    replies               \* the collaborator responses each concurrent query got

vars == <<query, plan, context, current_step, final_answer, validation,
          retrieval_history, calculation_results, node, trace, plans_created,
          store, search_log, last_retrieval, last_calculation, last_synthesis,
          exception, response, document, sections, pending, all_chunks, uuids, pc,
          call_log, last_search, last_plan, states, replies>>

chunker_vars ==
    <<document, sections, pending, all_chunks, uuids, pc, call_log, last_search>>

query_vars == <<states, replies>>

workflow_vars == <<query, plan, context, current_step, final_answer, validation,
                   retrieval_history, calculation_results, node, trace,
                   plans_created, last_synthesis, exception, response>>

---------------------------------------------------------------------------
(* Bounds *)

MaxPlanLen == 3

---------------------------------------------------------------------------
(* Text helpers *)

PyNone == "None"

UpperOf ==
    ("a" :> "A") @@ ("b" :> "B") @@ ("c" :> "C") @@ ("d" :> "D") @@ ("e" :> "E") @@
    ("f" :> "F") @@ ("g" :> "G") @@ ("h" :> "H") @@ ("i" :> "I") @@ ("j" :> "J") @@
    ("k" :> "K") @@ ("l" :> "L") @@ ("m" :> "M") @@ ("n" :> "N") @@ ("o" :> "O") @@
    ("p" :> "P") @@ ("q" :> "Q") @@ ("r" :> "R") @@ ("s" :> "S") @@ ("t" :> "T") @@
    ("u" :> "U") @@ ("v" :> "V") @@ ("w" :> "W") @@ ("x" :> "X") @@ ("y" :> "Y") @@
    ("z" :> "Z")

\* str.upper()
Upper(s) == [i \in 1..Len(s) |-> IF s[i] \in DOMAIN UpperOf THEN UpperOf[s[i]] ELSE s[i]]

\* str.startswith(prefix)
StartsWith(s, prefix) ==
    /\ Len(s) >= Len(prefix)
    /\ SubSeq(s, 1, Len(prefix)) = prefix

RECURSIVE LStrip(_)
LStrip(s) == IF s # <<>> /\ Head(s) = " " THEN LStrip(Tail(s)) ELSE s

RECURSIVE RStrip(_)
RStrip(s) == IF s # <<>> /\ s[Len(s)] = " " THEN RStrip(SubSeq(s, 1, Len(s) - 1)) ELSE s

\* str.strip()
Strip(s) == RStrip(LStrip(s))

RECURSIVE SeqCount(_, _)
SeqCount(s, x) ==
    IF s = <<>> THEN 0
    ELSE (IF Head(s) = x THEN 1 ELSE 0) + SeqCount(Tail(s), x)

\* s[:n]
Take(s, n) == SubSeq(s, 1, IF Len(s) < n THEN Len(s) ELSE n)

---------------------------------------------------------------------------
(* Plan steps and the planning completion *)

SYNTHESIZE == <<"S", "Y", "N", "T", "H", "E", "S", "I", "Z", "E">>
CALCULATE  == <<"C", "A", "L", "C", "U", "L", "A", "T", "E">>

StepRetrieveX   == <<"R", "E", "T", "R", "I", "E", "V", "E", ":", " ", "X">>
StepCalculateY  == <<"C", "A", "L", "C", "U", "L", "A", "T", "E", ":", " ", "Y">>
StepSynthesizeZ == <<"S", "Y", "N", "T", "H", "E", "S", "I", "Z", "E", ":", " ", "Z">>
StepLowerCalc   == <<"c", "a", "l", "c", "u", "l", "a", "t", "e", " ", "y">>
StepMixedSynth  == <<"S", "y", "n", "t", "h", "e", "s", "i", "z", "e", " ", "z">>
StepNumbered    == <<"1", ".", " ", "C", "A", "L", "C", "U", "L", "A", "T", "E">>
LinePadded      == <<" ", " ", "R", "E", "T", "R", "I", "E", "V", "E", ":", " ", "X", " ">>
LineBlank       == <<" ", " ">>

\* "RETRIEVE: General information about the query", the default plan step
StepDefault     == <<"R", "E", "T", "R", "I", "E", "V", "E", ":", " ", "G", "e", "n", "e", "r", "a", "l">>

Steps == {StepRetrieveX, StepCalculateY, StepSynthesizeZ,
          StepLowerCalc, StepMixedSynth, StepNumbered}

SeqsUpTo(S, n) == UNION {[1..k -> S] : k \in 0..n}

\* What the planning completion can give: a JSON array of step strings
\* (possibly empty), prose without an array (split into lines), or an error
\* (the call raises, or the bracketed text is not JSON).
PlanOutputs ==
    {[kind |-> "array", items |-> p] : p \in SeqsUpTo(Steps, MaxPlanLen)}
    \cup {[kind |-> "lines", items |-> <<LinePadded, LineBlank, StepCalculateY>>],
          [kind |-> "lines", items |-> <<LineBlank>>],
          [kind |-> "error", items |-> <<>>]}

RECURSIVE StrippedNonEmpty(_)
StrippedNonEmpty(lines) ==
    IF lines = <<>> THEN <<>>
    ELSE (IF Strip(Head(lines)) # <<>> THEN <<Strip(Head(lines))>> ELSE <<>>)
         \o StrippedNonEmpty(Tail(lines))

DefaultPlan == <<StepDefault>>

NoPlan == [called |-> FALSE]

\* OrchestratorAgent.create_plan
create_plan(out) ==
    IF out.kind = "error" THEN DefaultPlan
    ELSE LET p == IF out.kind = "array" THEN out.items
                  ELSE StrippedNonEmpty(out.items)
         IN IF p # <<>> THEN p ELSE DefaultPlan

should_continue_case_sensitive(p, step) ==
    IF step >= Len(p) THEN "finish"
    ELSE IF StartsWith(p[step + 1], SYNTHESIZE) THEN "synthesis"
    ELSE IF StartsWith(p[step + 1], CALCULATE) THEN "calculation"
    ELSE "retrieval"

should_continue_no_calculation(p, step) ==
    IF step >= Len(p) THEN "finish"
    ELSE IF StartsWith(Upper(p[step + 1]), SYNTHESIZE) THEN "synthesis"
    ELSE "retrieval"

should_continue_synthesizes_last(p, step) ==
    IF step >= Len(p) THEN "finish"
    ELSE IF step = Len(p) - 1 \/ StartsWith(Upper(p[step + 1]), SYNTHESIZE)
         THEN "synthesis"
    ELSE IF StartsWith(Upper(p[step + 1]), CALCULATE) THEN "calculation"
    ELSE "retrieval"

\* OrchestratorAgent.should_continue
should_continue(p, step) ==
    IF step >= Len(p) THEN "finish"
    ELSE IF StartsWith(Upper(p[step + 1]), SYNTHESIZE) THEN "synthesis"
    ELSE IF StartsWith(Upper(p[step + 1]), CALCULATE) THEN "calculation"
    ELSE "retrieval"

should_continue_after_retrieval_last_step(p, step) ==
    IF step + 1 >= Len(p) THEN "finish" ELSE "orchestrator"

\* FABWorkflow._should_continue_after_retrieval
should_continue_after_retrieval(p, step) ==
    IF step >= Len(p) THEN "finish" ELSE "orchestrator"

should_continue_after_calculation_stops(p, step) == "finish"

\* FABWorkflow._should_continue_after_calculation
should_continue_after_calculation(p, step) ==
    IF step >= Len(p) THEN "finish" ELSE "orchestrator"

current_step_text_of_next(p, step) == IF step + 1 < Len(p) THEN p[step + 2] ELSE <<>>

\* plan[current_step] if current_step < len(plan) else ""
current_step_text(p, step) == IF step < Len(p) THEN p[step + 1] ELSE <<>>

---------------------------------------------------------------------------
(* The chunk store: collection.query as the nearest-neighbour collaborator *)

\* n_results passed by every search of execute_retrieval
NResults == 5

\* length of the content prefix hashed for deduplication
PrefixLen == 100

MaxQueries == 2

\* content made of PrefixLen times c followed by the text rest
LongContent(c, rest) ==
    [i \in 1..(PrefixLen + Len(rest)) |-> IF i <= PrefixLen THEN c ELSE rest[i - PrefixLen]]

Metadata(doc, q, y, sec) ==
    [document_type |-> doc, quarter |-> q, year |-> y, section_name |-> sec]

Chunk(id, content, meta) == [id |-> id, content |-> content, metadata |-> meta]

Chunk1 == Chunk("id1", <<"N", "P", " ", "1", "0">>,
                Metadata("financial statement", "Q1", "2024", "Income Statement"))
Chunk2 == Chunk("id2", <<"T", "A", " ", "2", "0">>,
                Metadata("financial statement", "Q2", "2024", "Balance Sheet"))
Chunk3 == Chunk("id3", LongContent("a", <<"x">>),
                Metadata("results call", "Q1", "2023", "Q&A"))
Chunk4 == Chunk("id4", LongContent("a", <<"y">>),
                Metadata("results call", "Q2", "2023", "Q&A"))

Chunk5 == Chunk("id5", <<"R", "O", "E", " ", "9">>,
                Metadata("earnings presentation", "Q3", "2024", "Key Metrics"))
Chunk6 == Chunk("id6", <<"L", "D", "R", " ", "7">>,
                Metadata("earnings presentation", "Q3", "2023", "Key Metrics"))

UserQueries == {"What is the net profit?"}
SearchTexts == {"net profit", "total assets"}

\* The embedding distance of a stored chunk from a query text: the index ranks
\* by it; the values are arbitrary but fixed, and distinct for one text.
Distance(text, id) ==
    CASE text = "net profit" ->
           (CASE id = "id1" -> 1 [] id = "id3" -> 2 [] id = "id4" -> 3
              [] id = "id2" -> 4 [] id = "id5" -> 5 [] OTHER -> 6)
      [] text = "total assets" ->
           (CASE id = "id2" -> 1 [] id = "id4" -> 2 [] id = "id1" -> 3
              [] id = "id3" -> 4 [] id = "id6" -> 5 [] OTHER -> 6)
      [] OTHER ->
           (CASE id = "id3" -> 1 [] id = "id1" -> 2 [] id = "id2" -> 3
              [] id = "id4" -> 4 [] id = "id5" -> 5 [] OTHER -> 6)

\* Optional[Dict]: None, or a mapping given as its set of <<key, value>> items
None == [is_none |-> TRUE, items |-> {}]
Some(items) == [is_none |-> FALSE, items |-> items]

\* the where clause handed to collection.query
NoWhere == [op |-> "none", conds |-> {}]

\* the metadata constraint as the index applies it
WhereMatches(meta, where) ==
    CASE where.op = "none" -> TRUE
      [] where.op = "eq" ->
           \A kv \in where.conds : kv[1] \in DOMAIN meta /\ meta[kv[1]] = kv[2]
      [] where.op = "$and" ->
           \A kv \in where.conds : kv[1] \in DOMAIN meta /\ meta[kv[1]] = kv[2]

RECURSIVE SortByDistance(_, _)
SortByDistance(text, chunks) ==
    IF chunks = {} THEN <<>>
    ELSE LET best == CHOOSE c \in chunks :
                        \A d \in chunks : Distance(text, c.id) <= Distance(text, d.id)
         IN <<best>> \o SortByDistance(text, chunks \ {best})

\* collection.query(query_texts=[text], n_results=n, where=where)
CollectionQuery(st, text, n, where) ==
    Take(SortByDistance(text, {c \in st : WhereMatches(c.metadata, where)}), n)

\* several filters are not combined: one of them is handed over
WhereClauseOneFilter(filters) ==
    IF ~filters.is_none /\ Cardinality(filters.items) > 0
    THEN [op |-> "eq", conds |-> {CHOOSE kv \in filters.items : TRUE}]
    ELSE NoWhere

\* search_chunks, lines 212-224: the where clause built from the filters
WhereClause(filters) ==
    IF ~filters.is_none /\ Cardinality(filters.items) > 0
    THEN IF Cardinality(filters.items) = 1
         THEN [op |-> "eq", conds |-> filters.items]
         ELSE [op |-> "$and", conds |-> filters.items]
    ELSE NoWhere

\* FABDocumentChunker.search_chunks
search_chunks(st, text, filters, n_results) ==
    LET found == CollectionQuery(st, text, n_results, WhereClause(filters))
    IN [i \in 1..Len(found) |->
           [content  |-> found[i].content,
            metadata |-> found[i].metadata,
            distance |-> Distance(text, found[i].id),
            id       |-> found[i].id]]

\* default of n_results
DefaultNResults == 10

\* what collection.query does with a search: it answers; or get_embedding
\* fails and the zero vector is searched for; or the query raises
QueryOutcomes == {"answers", "zero vector", "raises"}

\* a text whose embedding is the zero vector
ZeroVectorText == ""

\* search_chunks as a whole, lines 208-247: the answer of collection.query
\* formatted, [] when the query raises
search_chunks_call(st, text, filters, n_results, outcome) ==
    IF outcome = "raises" THEN <<>>
    ELSE search_chunks(st, IF outcome = "zero vector" THEN ZeroVectorText ELSE text,
                       filters, n_results)

\* FABDocumentPipeline.search_financial_data: the filters made of the
\* arguments that are given
FinancialDataFilters(document_type, quarter, year, section) ==
    Some({kv \in {<<"document_type", document_type>>, <<"quarter", quarter>>,
                  <<"year", year>>, <<"section_name", section>>} :
             kv[2] # PyNone})

NoSearch == [called |-> FALSE]

---------------------------------------------------------------------------
(* RetrievalAgent.execute_retrieval *)

FilterQ1        == {<<"quarter", "Q1">>}
FilterQ4        == {<<"quarter", "Q4">>}
FilterQ1Y2024   == {<<"quarter", "Q1">>, <<"year", "2024">>}
FilterQ1Y2025   == {<<"quarter", "Q1">>, <<"year", "2025">>}
FilterFabricated == {<<"speaker", "CFO">>}

FilterChoices == {{}, FilterQ1, FilterQ4, FilterQ1Y2024, FilterQ1Y2025, FilterFabricated}

\* A completion that parses as a JSON object (with the keys it carries), or one
\* that does not (malformed text, or the call raising).
JsonResponse(keys, queries, filters) ==
    [kind |-> "json", keys |-> keys, search_queries |-> queries, filters |-> filters]

MalformedResponse ==
    [kind |-> "malformed", keys |-> {}, search_queries |-> <<>>, filters |-> {}]

RetrievalResponses ==
    {JsonResponse({"search_queries", "filters"}, qs, f) :
        qs \in SeqsUpTo(SearchTexts, MaxQueries), f \in FilterChoices}
    \cup {JsonResponse({"filters"}, <<>>, f) : f \in FilterChoices}
    \cup {JsonResponse({"search_queries"}, qs, {}) : qs \in SeqsUpTo(SearchTexts, MaxQueries)}
    \cup {JsonResponse({}, <<>>, {}), MalformedResponse}

\* retrieval_plan.get("search_queries", [query])
ResponseQueries(q, resp) ==
    IF "search_queries" \in resp.keys THEN resp.search_queries ELSE <<q>>

\* retrieval_plan.get("filters", {})
ResponseFilters(resp) ==
    IF "filters" \in resp.keys THEN resp.filters ELSE {}

\* filters if filters else None
FilterArg(filters) == IF filters # {} THEN Some(filters) ELSE None

RECURSIVE SearchEach(_, _, _)
\* the results of one loop over search_queries, concatenated (all_results.extend)
SearchEach(st, queries, filters) ==
    IF queries = <<>> THEN <<>>
    ELSE search_chunks(st, Head(queries), filters, NResults)
         \o SearchEach(st, Tail(queries), filters)

\* the search_chunks calls of one loop, as issued
CallsOf(site, queries, filters) ==
    [i \in 1..Len(queries) |-> [site |-> site, query |-> queries[i], filters |-> filters]]

RetryNeededWheneverFiltered(all_results, filters) == filters # {}

\* line 100: if len(all_results) == 0 and filters
RetryNeeded(all_results, filters) == Len(all_results) = 0 /\ filters # {}

content_hash_whole_content(result) == result.content

\* result['content'][:100], the key the hash is taken of
content_hash(result) == Take(result.content, PrefixLen)

RECURSIVE UniqueFrom(_, _, _)
\* lines 113-117: the loop from the i-th result on, seen_content as it stands
UniqueFrom(all_results, i, seen_content) ==
    IF i > Len(all_results) THEN <<>>
    ELSE IF content_hash(all_results[i]) \in seen_content
         THEN UniqueFrom(all_results, i + 1, seen_content)
         ELSE <<all_results[i]>>
              \o UniqueFrom(all_results, i + 1,
                            seen_content \cup {content_hash(all_results[i])})

\* lines 110-117: keep the first result of each content prefix
Unique(all_results) == UniqueFrom(all_results, 1, {})

RetryResultsFirstQueryOnly(st, queries) == SearchEach(st, Take(queries, 1), None)

\* lines 102-108: the same queries, searched with filters=None
RetryResults(st, queries) == SearchEach(st, queries, None)

FallbackReturnsNothing(st, q) == [results |-> <<>>, calls |-> <<>>]

\* line 125: self.chunker.search_chunks(query=query, n_results=5)
Fallback(st, q) ==
    [results |-> search_chunks(st, q, None, NResults),
     calls   |-> CallsOf("fallback", <<q>>, None)]

\* execute_retrieval: the list it returns and the searches it issued; the
\* current_step argument only enters the prompt, so the completion resp stands
\* for it
execute_retrieval(st, q, resp) ==
    IF resp.kind # "json"
    THEN Fallback(st, q)
    ELSE LET search_queries == ResponseQueries(q, resp)
             filters        == ResponseFilters(resp)
             first          == SearchEach(st, search_queries, FilterArg(filters))
             retry          == RetryNeeded(first, filters)
             all_results    == IF retry THEN first \o RetryResults(st, search_queries)
                               ELSE first
         IN [results |-> Unique(all_results),
             calls   |-> CallsOf("search", search_queries, FilterArg(filters))
                         \o (IF retry THEN CallsOf("retry", search_queries, None)
                             ELSE <<>>)]

---------------------------------------------------------------------------
(* CalculationAgent: the formula text, numexpr.evaluate and perform_calculation *)

Digits == {"0", "1", "2", "3", "4", "5", "6", "7", "8", "9"}

DigitValue ==
    ("0" :> 0) @@ ("1" :> 1) @@ ("2" :> 2) @@ ("3" :> 3) @@ ("4" :> 4) @@
    ("5" :> 5) @@ ("6" :> 6) @@ ("7" :> 7) @@ ("8" :> 8) @@ ("9" :> 9)

DigitOf == [d \in 0..9 |-> CHOOSE c \in Digits : DigitValue[c] = d]

Letters == DOMAIN UpperOf \cup {UpperOf[c] : c \in DOMAIN UpperOf} \cup {"_"}

WordChars == Letters \cup Digits

RECURSIVE NatStr(_)
\* str(n) of a non-negative int
NatStr(n) == IF n < 10 THEN <<DigitOf[n]>> ELSE NatStr(n \div 10) \o <<DigitOf[n % 10]>>

\* a JSON number or a JSON string as a value of input_values
Number(n) == [type |-> "number", n |-> n, s |-> <<>>]
String(s) == [type |-> "string", n |-> 0, s |-> s]

\* str(value)
Str(value) == IF value.type = "number" THEN NatStr(value.n) ELSE value.s

RECURSIVE Interleave(_, _)
Interleave(s, new) ==
    IF s = <<>> THEN new ELSE new \o <<Head(s)>> \o Interleave(Tail(s), new)

RECURSIVE Replace(_, _, _)
\* str.replace(old, new): every non-overlapping occurrence, left to right
Replace(s, old, new) ==
    IF old = <<>> THEN Interleave(s, new)
    ELSE IF Len(s) < Len(old) THEN s
    ELSE IF SubSeq(s, 1, Len(old)) = old
         THEN new \o Replace(SubSeq(s, Len(old) + 1, Len(s)), old, new)
         ELSE <<Head(s)>> \o Replace(Tail(s), old, new)

RECURSIVE Substitute(_, _)
\* lines 180-181: for var_name, value in input_values.items():
\*                    expression = expression.replace(var_name, str(value))
Substitute(expression, input_values) ==
    IF input_values = <<>> THEN expression
    ELSE Substitute(Replace(expression, Head(input_values)[1], Str(Head(input_values)[2])),
                    Tail(input_values))

VAR_NAME == <<"v", "a", "r", "_", "n", "a", "m", "e">>

VALUE == <<"v", "a", "l", "u", "e">>

\* the names, other than value, bound in the frame that calls numexpr.evaluate
\* (locals of _validate_and_execute_calculation, globals of the module), none of
\* them a number
NonNumericNames ==
    {<<"v", "a", "r", "_", "n", "a", "m", "e">>,
     <<"s", "e", "l", "f">>,
     <<"c", "a", "l", "c", "u", "l", "a", "t", "i", "o", "n", "_", "r", "e", "s", "u", "l", "t">>,
     <<"f", "o", "r", "m", "u", "l", "a">>,
     <<"i", "n", "p", "u", "t", "_", "v", "a", "l", "u", "e", "s">>,
     <<"e", "x", "p", "r", "e", "s", "s", "i", "o", "n">>,
     <<"j", "s", "o", "n">>,
     <<"r", "e">>,
     <<"n", "u", "m", "e", "x", "p", "r">>}

NoneValue == [type |-> "none", n |-> 0, s |-> <<>>]

RECURSIVE WordAt(_)
\* the longest run of letters, digits and underscores a text starts with
WordAt(s) ==
    IF s # <<>> /\ Head(s) \in WordChars THEN <<Head(s)>> \o WordAt(Tail(s)) ELSE <<>>

RECURSIVE Tokens(_)
\* the expression as numexpr reads it: words, and single other characters,
\* blanks dropped
Tokens(s) ==
    IF s = <<>> THEN <<>>
    ELSE IF Head(s) = " " THEN Tokens(Tail(s))
    ELSE IF Head(s) \in WordChars
         THEN <<WordAt(s)>> \o Tokens(SubSeq(s, Len(WordAt(s)) + 1, Len(s)))
         ELSE <<<<Head(s)>>>> \o Tokens(Tail(s))

IsNumber(t) == t # <<>> /\ \A i \in 1..Len(t) : t[i] \in Digits

IsName(t) == t # <<>> /\ t[1] \in Letters /\ \A i \in 1..Len(t) : t[i] \in WordChars

\* the operators of the formulas: sums, differences and products of integers
Operators == {<<"+">>, <<"-">>, <<"*">>}

RECURSIVE NatValue(_)
NatValue(t) ==
    IF t = <<>> THEN 0
    ELSE 10 * NatValue(SubSeq(t, 1, Len(t) - 1)) + DigitValue[t[Len(t)]]

\* operand, operator, operand, ..., operand
WellFormed(tokens) ==
    /\ Len(tokens) % 2 = 1
    /\ \A i \in 1..Len(tokens) :
          IF i % 2 = 1 THEN IsNumber(tokens[i]) \/ IsName(tokens[i])
          ELSE tokens[i] \in Operators

Failed(error) == [ok |-> FALSE, n |-> 0, error |-> error]
Evaluated(n)  == [ok |-> TRUE, n |-> n, error |-> ""]

\* numexpr's operand lookup: a literal, or a name looked up in the locals and
\* then the globals of the frame calling evaluate. After the loop of lines
\* 180-181 the locals hold value (the last value of input_values) and var_name.
Operand(t, input_values) ==
    IF IsNumber(t) THEN Evaluated(NatValue(t))
    ELSE IF t = VALUE /\ input_values # <<>>
         THEN IF input_values[Len(input_values)][2].type = "number"
              THEN Evaluated(input_values[Len(input_values)][2].n)
              ELSE Failed("TypeError")
    ELSE IF t \in NonNumericNames /\ (t = VAR_NAME => input_values # <<>>)
         THEN Failed("TypeError")
    ELSE Failed("KeyError")

RECURSIVE EvalFrom(_, _, _, _, _)
\* the sum of the products before operand k, and the product under way
EvalFrom(nums, ops, k, sum, prod) ==
    IF k > Len(nums) THEN sum + prod
    ELSE CASE ops[k - 1] = <<"+">> -> EvalFrom(nums, ops, k + 1, sum + prod, nums[k])
           [] ops[k - 1] = <<"-">> -> EvalFrom(nums, ops, k + 1, sum + prod, 0 - nums[k])
           [] OTHER                -> EvalFrom(nums, ops, k + 1, sum, prod * nums[k])

\* numexpr.evaluate(expression).item(), called at line 184
numexpr_evaluate(expression, input_values) ==
    LET tokens == Tokens(expression)
    IN IF ~WellFormed(tokens) THEN Failed("SyntaxError")
       ELSE LET count    == (Len(tokens) + 1) \div 2
                operands == [k \in 1..count |-> Operand(tokens[2 * k - 1], input_values)]
                ops      == [k \in 1..(count - 1) |-> tokens[2 * k]]
            IN IF \E k \in 1..count : ~operands[k].ok
               THEN Failed(operands[CHOOSE k \in 1..count :
                              /\ ~operands[k].ok
                              /\ \A j \in 1..(k - 1) : operands[j].ok].error)
               ELSE Evaluated(EvalFrom([k \in 1..count |-> operands[k].n], ops,
                                       2, 0, operands[1].n))

\* dict.get(key, default)
Get(obj, key, default) == IF key \in DOMAIN obj THEN obj[key] ELSE default

\* the dict with dict[key] = val assigned
Assign(obj, key, val) == (key :> val) @@ obj

\* CalculationAgent._validate_and_execute_calculation on a JSON object
validate_and_execute_calculation(calculation_result) ==
    LET formula      == Get(calculation_result, "formula_used", <<>>)
        input_values == Get(calculation_result, "input_values", <<>>)
        expression   == Substitute(formula, input_values)
        result       == numexpr_evaluate(expression, input_values)
    IN IF result.ok
       THEN Assign(Assign(calculation_result, "validated_result", Number(result.n)),
                   "execution_success", TRUE)
       ELSE Assign(Assign(Assign(calculation_result, "validated_result", NoneValue),
                          "execution_success", FALSE),
                   "execution_error", result.error)

\* whitespace: what str.strip() removes and \s matches
Blank == {" ", "\n", "\t"}

RECURSIVE StripWhitespace(_)
\* str.strip(): whitespace off both ends
StripWhitespace(s) ==
    IF s # <<>> /\ Head(s) \in Blank THEN StripWhitespace(Tail(s))
    ELSE IF s # <<>> /\ s[Len(s)] \in Blank
         THEN StripWhitespace(SubSeq(s, 1, Len(s) - 1))
         ELSE s

RECURSIVE CombinedContent(_)
\* lines 121-124: the content of every item that has a 'content' key, each
\* followed by a newline
CombinedContent(data_context) ==
    IF data_context = <<>> THEN <<>>
    ELSE (IF "content" \in DOMAIN Head(data_context)
          THEN Head(data_context).content \o <<"\n">>
          ELSE <<>>)
         \o CombinedContent(Tail(data_context))

\* The metric-extraction completion: a JSON object of metrics, JSON that is no
\* object, text that is not JSON, or the call raising.
MetricNetProfit == [value |-> Number(10), unit |-> "AED millions"]
MetricNoValue   == [unit |-> "percentage"]

ExtractionCompletions ==
    {[kind |-> "json", metrics |-> [k \in {"net_profit", "roe"} |->
                                      IF k = "net_profit" THEN MetricNetProfit
                                      ELSE MetricNoValue]],
     [kind |-> "non_object", metrics |-> <<>>],
     [kind |-> "not_json", metrics |-> <<>>],
     [kind |-> "raise", metrics |-> <<>>]}

\* lines 137-144: the metrics that carry a value, with the defaults filled in
NumericalData(metrics) ==
    [k \in {m \in DOMAIN metrics : "value" \in DOMAIN metrics[m]} |->
        [value         |-> metrics[k].value,
         unit          |-> Get(metrics[k], "unit", "unknown"),
         original_name |-> Get(metrics[k], "original_name", k)]]

\* CalculationAgent._extract_numerical_data: the data it returns and the
\* extraction calls it issued
extract_numerical_data(data_context, extraction) ==
    LET combined_content == CombinedContent(data_context)
    IN IF StripWhitespace(combined_content) = <<>>
       THEN [data |-> <<>>, calls |-> <<>>]
       ELSE [data  |-> IF extraction.kind = "json"
                       THEN NumericalData(extraction.metrics) ELSE <<>>,
             calls |-> <<combined_content>>]

\* The calculation completion: a JSON object, JSON that is no object, text that
\* is not JSON, or the call raising.
CalcObject(formula, input_values) ==
    [kind |-> "json",
     object |-> [calculation_type |-> "ratio", formula_used |-> formula,
                 input_values |-> input_values, units |-> "ratio"]]

CalcObjectBare  == [kind |-> "json", object |-> [calculation_type |-> "custom"]]
CalcNonObject   == [kind |-> "non_object", object |-> <<>>]
CalcNotJson     == [kind |-> "not_json", object |-> <<>>]
CalcRaises      == [kind |-> "raise", object |-> <<>>]

VarA  == <<"a">>
VarB  == <<"b">>
VarAB == <<"a", "b">>

Formulas ==
    {<<"a", "+", "b">>,
     <<"a", "*", "b", "-", "a">>,
     <<"v", "a", "l", "u", "e", "+", "b">>,
     <<"a", "b", "+", "a">>,
     <<"a", "+">>,
     <<"2", "*", "3">>}

InputValues ==
    {<<>>,
     <<<<VarA, Number(2)>>>>,
     <<<<VarB, Number(3)>>>>,
     <<<<VarA, Number(2)>>, <<VarB, Number(3)>>>>,
     <<<<VarAB, Number(6)>>, <<VarA, Number(2)>>>>,
     <<<<VarA, Number(2)>>, <<VarAB, Number(6)>>>>,
     <<<<VarB, String(<<"n", "a">>)>>>>}

CalcCompletions ==
    {CalcObject(f, iv) : f \in Formulas, iv \in InputValues}
    \cup {CalcObjectBare, CalcNonObject, CalcNotJson, CalcRaises}

\* lines 107-114: the dict returned when anything raised
ErrorResult(error) ==
    [calculation_type |-> "error", result |-> NoneValue, error |-> error,
     units |-> "unknown"]

\* lines 96-114: the dict perform_calculation returns, by the completion of the
\* calculation call. A completion that is JSON but no object makes
\* _validate_and_execute_calculation raise from its own handler (line 191).
calculate(completion) ==
    CASE completion.kind = "raise"      -> ErrorResult("completion failed")
      [] completion.kind = "not_json"   -> ErrorResult("JSONDecodeError")
      [] completion.kind = "non_object" -> ErrorResult("TypeError")
      [] OTHER -> validate_and_execute_calculation(completion.object)

\* CalculationAgent.perform_calculation: the dict it returns and the
\* extraction calls it issued
perform_calculation(data_context, extraction, completion) ==
    LET available_data == extract_numerical_data(data_context, extraction)
    IN [result           |-> calculate(completion),
        available_data   |-> available_data.data,
        extraction_calls |-> available_data.calls]

---------------------------------------------------------------------------
(* FABDocumentChunker: section extraction and chunking of the converted text *)

\* the buffer length beyond which the accumulated text is flushed
ChunkLimit == 1500

MinOf(S) == CHOOSE x \in S : \A y \in S : x <= y
MaxOf(S) == CHOOSE x \in S : \A y \in S : x >= y

\* the pattern occurs in s at position i
OccursAt(s, i, pat) ==
    i >= 1 /\ i + Len(pat) - 1 <= Len(s) /\ SubSeq(s, i, i + Len(pat) - 1) = pat

\* str.find(pat, from) with 1-based positions, 0 when absent
Find(s, pat, from) ==
    LET hits == {i \in from..Len(s) : OccursAt(s, i, pat)}
    IN IF hits = {} THEN 0 ELSE MinOf(hits)

\* the end of the longest run of characters of a set that starts at i (i - 1
\* when the run is empty)
RunEnd(s, i, chars) ==
    LET stops == {j \in i..Len(s) : s[j] \notin chars}
    IN IF stops = {} THEN Len(s) ELSE MinOf(stops) - 1

\* \|.*?\|\n matched at p: the position of its newline, 0 when it does not
\* match. The dot does not cross a newline, so the row runs from the bar at p
\* to the end of the line, which must be a later bar.
RowEnd(s, p) ==
    IF p > Len(s) \/ s[p] # "|" THEN 0
    ELSE LET nl == Find(s, <<"\n">>, p)
         IN IF nl # 0 /\ nl - 1 > p /\ s[nl - 1] = "|" THEN nl ELSE 0

RECURSIVE RowsEnd(_, _)
\* (?:\|.*?\|\n)* matched after position e
RowsEnd(s, e) == IF RowEnd(s, e + 1) # 0 THEN RowsEnd(s, RowEnd(s, e + 1)) ELSE e

\* table_split_pattern (line 69) matched at p: the position of its last
\* character, 0 when it does not match
TableEnd(s, p) ==
    IF RowEnd(s, p) # 0 /\ RowEnd(s, RowEnd(s, p) + 1) # 0
    THEN RowsEnd(s, RowEnd(s, RowEnd(s, p) + 1))
    ELSE 0

RECURSIVE ReSplit(_)
\* re.split(table_split_pattern, content): text, table, text, ..., text
ReSplit(s) ==
    LET starts == {p \in 1..Len(s) : s[p] = "|" /\ TableEnd(s, p) # 0}
    IN IF starts = {} THEN <<s>>
       ELSE <<SubSeq(s, 1, MinOf(starts) - 1),
              SubSeq(s, MinOf(starts), TableEnd(s, MinOf(starts)))>>
            \o ReSplit(SubSeq(s, TableEnd(s, MinOf(starts)) + 1, Len(s)))

RECURSIVE SplitOn(_, _)
\* str.split(sep)
SplitOn(s, sep) ==
    IF Find(s, sep, 1) = 0 THEN <<s>>
    ELSE <<SubSeq(s, 1, Find(s, sep, 1) - 1)>>
         \o SplitOn(SubSeq(s, Find(s, sep, 1) + Len(sep), Len(s)), sep)

RECURSIVE StrippedParts(_)
\* [p.strip() for p in parts if p.strip()]
StrippedParts(parts) ==
    IF parts = <<>> THEN <<>>
    ELSE (IF StripWhitespace(Head(parts)) # <<>>
          THEN <<StripWhitespace(Head(parts))>> ELSE <<>>)
         \o StrippedParts(Tail(parts))

\* line 103: the paragraphs of a text part
Paragraphs(part) == StrippedParts(SplitOn(part, <<"\n", "\n">>))

\* line 79: part.strip().startswith('|') and '---' in part
is_table(part) ==
    /\ StartsWith(StripWhitespace(part), <<"|">>)
    /\ Find(part, <<"-", "-", "-">>, 1) # 0

\* uuid.uuid4(): the n-th identifier generated
Uuid(n) == <<"uuid", n>>

\* FABDocumentChunker._create_chunk_dict
\* the id is made of the place of the chunk in its document
create_chunk_dict_id_by_place(content, section, doc_metadata, chunk_id, content_type, uuid) ==
    [id |-> <<section.section_name, section.page_number, chunk_id>>,
     content |-> content,
     metadata |-> [document_type |-> doc_metadata.document_type,
                   filename      |-> doc_metadata.filename,
                   quarter       |-> Get(doc_metadata, "quarter", "unknown"),
                   year          |-> Get(doc_metadata, "year", "unknown"),
                   section_name  |-> section.section_name,
                   page_number   |-> section.page_number,
                   chunk_id      |-> chunk_id,
                   content_type  |-> content_type,
                   fiscal_period |-> Get(doc_metadata, "fiscal_period", "unknown"),
                   full_section  |-> section.section_name,
                   source_document |-> doc_metadata.filename,
                   embedding_model |-> "embeddinggemma"]]

create_chunk_dict(content, section, doc_metadata, chunk_id, content_type, uuid) ==
    [id |-> uuid,
     content |-> content,
     metadata |-> [document_type |-> doc_metadata.document_type,
                   filename      |-> doc_metadata.filename,
                   quarter       |-> Get(doc_metadata, "quarter", "unknown"),
                   year          |-> Get(doc_metadata, "year", "unknown"),
                   section_name  |-> section.section_name,
                   page_number   |-> section.page_number,
                   chunk_id      |-> chunk_id,
                   content_type  |-> content_type,
                   fiscal_period |-> Get(doc_metadata, "fiscal_period", "unknown"),
                   full_section  |-> section.section_name,
                   source_document |-> doc_metadata.filename,
                   embedding_model |-> "embeddinggemma"]]

\* the loop state of chunk_section_content: chunks, current_chunk, chunk_id
Chunking(chunks, current_chunk, chunk_id) ==
    [chunks |-> chunks, current_chunk |-> current_chunk, chunk_id |-> chunk_id]

\* chunks.append(self._create_chunk_dict(current_chunk.strip(), ...)),
\* chunk_id += 1, current_chunk = ""
Flush(st, section, doc_metadata, given) ==
    Chunking(Append(st.chunks,
                    create_chunk_dict(StripWhitespace(st.current_chunk), section,
                                      doc_metadata, st.chunk_id, "text",
                                      Uuid(given + Len(st.chunks)))),
             <<>>, st.chunk_id + 1)

\* lines 81-100: a table part
AddTable(st, part, section, doc_metadata, given) ==
    LET flushed == IF StripWhitespace(st.current_chunk) # <<>>
                   THEN Flush(st, section, doc_metadata, given) ELSE st
    IN Chunking(Append(flushed.chunks,
                       create_chunk_dict(StripWhitespace(part), section, doc_metadata,
                                         flushed.chunk_id, "table",
                                         Uuid(given + Len(flushed.chunks)))),
                flushed.current_chunk, flushed.chunk_id + 1)

\* line 108: len(current_chunk) + len(paragraph) > 1500 and current_chunk
ChunkFull(current_chunk, paragraph) ==
    Len(current_chunk) + Len(paragraph) > ChunkLimit /\ current_chunk # <<>>

RECURSIVE AddParagraphs(_, _, _, _, _)
\* lines 105-117: the paragraphs of a text part, one after the other
AddParagraphs(st, paragraphs, section, doc_metadata, given) ==
    IF paragraphs = <<>> THEN st
    ELSE LET paragraph == Head(paragraphs)
             flushed ==
                 IF ChunkFull(st.current_chunk, paragraph)
                 THEN Flush(st, section, doc_metadata, given) ELSE st
         IN AddParagraphs(
                Chunking(flushed.chunks,
                         flushed.current_chunk \o paragraph \o <<"\n", "\n">>,
                         flushed.chunk_id),
                Tail(paragraphs), section, doc_metadata, given)

RECURSIVE AddParts(_, _, _, _, _)
\* lines 74-117: the loop over the parts
AddParts(st, parts, section, doc_metadata, given) ==
    IF parts = <<>> THEN st
    ELSE AddParts(
             IF StripWhitespace(Head(parts)) = <<>> THEN st
             ELSE IF is_table(Head(parts))
                  THEN AddTable(st, Head(parts), section, doc_metadata, given)
                  ELSE AddParagraphs(st, Paragraphs(Head(parts)), section,
                                     doc_metadata, given),
             Tail(parts), section, doc_metadata, given)

\* the counter of the chunks goes on from the chunks made before
chunk_section_content_running_index(section, doc_metadata, given) ==
    LET st == AddParts(Chunking(<<>>, <<>>, given), ReSplit(section.content), section,
                       doc_metadata, given)
    IN IF StripWhitespace(st.current_chunk) # <<>>
       THEN Flush(st, section, doc_metadata, given).chunks
       ELSE st.chunks

\* FABDocumentChunker.chunk_section_content, given identifiers having been
\* generated before
chunk_section_content(section, doc_metadata, given) ==
    LET st == AddParts(Chunking(<<>>, <<>>, 0), ReSplit(section.content), section,
                       doc_metadata, given)
    IN IF StripWhitespace(st.current_chunk) # <<>>
       THEN Flush(st, section, doc_metadata, given).chunks
       ELSE st.chunks

SectionMarker == <<"#", "S", "e", "c", "t", "i", "o", "n">>
PageMarker    == <<"#", "P", "a", "g", "e">>

\* \s+#Page\s+(\d+) matched right after position k: the positions of the first
\* and last digit, <<0, 0>> when it does not match
PageAfter(s, k) ==
    LET w == RunEnd(s, k + 1, Blank)
        v == RunEnd(s, w + 1 + Len(PageMarker), Blank)
        d == RunEnd(s, v + 1, Digits)
    IN IF /\ w >= k + 1
          /\ OccursAt(s, w + 1, PageMarker)
          /\ v >= w + 1 + Len(PageMarker)
          /\ d >= v + 1
       THEN <<v + 1, d>> ELSE <<0, 0>>

\* #Section\s+([^\n]+)\s+#Page\s+(\d+) matched at p: the ways to choose the end
\* w of the first blank run and the end k of the name
NameChoices(s, p) ==
    IF ~OccursAt(s, p, SectionMarker) THEN {}
    ELSE LET a == p + Len(SectionMarker)
         IN {wk \in (a..RunEnd(s, a, Blank)) \X (a..Len(s)) :
                /\ wk[2] > wk[1]
                /\ \A i \in (wk[1] + 1)..wk[2] : s[i] # "\n"
                /\ PageAfter(s, wk[2]) # <<0, 0>>}

\* the choice the matcher makes: both runs are greedy, the earlier one first
NameChoice(s, p) ==
    CHOOSE wk \in NameChoices(s, p) :
        \A other \in NameChoices(s, p) :
            \/ wk[1] > other[1]
            \/ wk[1] = other[1] /\ wk[2] >= other[2]

\* the content runs to the end of the input
ContentEndGreedy(s, d) == Len(s)

\* (.*?)(?=\n#Section|\Z) matched after position d: the position of its last
\* character
ContentEnd(s, d) ==
    LET next == Find(s, <<"\n">> \o SectionMarker, d + 1)
    IN IF next = 0 THEN Len(s) ELSE next - 1

\* section_pattern (line 45) matched at p: the groups and the end of the match
SectionMatch(s, p) ==
    LET wk     == NameChoice(s, p)
        digits == PageAfter(s, wk[2])
        last   == ContentEnd(s, digits[2])
    IN [section_name |-> SubSeq(s, wk[1] + 1, wk[2]),
        page_num     |-> SubSeq(s, digits[1], digits[2]),
        content      |-> SubSeq(s, digits[2] + 1, last),
        last         |-> last]

RECURSIVE FindAll(_, _)
\* re.findall(section_pattern, content, re.DOTALL), from position from on
FindAll(s, from) ==
    LET starts == {p \in from..Len(s) : NameChoices(s, p) # {}}
    IN IF starts = {} THEN <<>>
       ELSE <<SectionMatch(s, MinOf(starts))>>
            \o FindAll(s, SectionMatch(s, MinOf(starts)).last + 1)

RECURSIVE SectionsOf(_)
\* lines 48-55: the matches whose content is not blank
SectionsOf(matches) ==
    IF matches = <<>> THEN <<>>
    ELSE (IF StripWhitespace(Head(matches).content) # <<>>
          THEN <<[section_name |-> StripWhitespace(Head(matches).section_name),
                  page_number  |-> NatValue(Head(matches).page_num),
                  content      |-> StripWhitespace(Head(matches).content)]>>
          ELSE <<>>)
         \o SectionsOf(Tail(matches))

\* FABDocumentChunker.extract_sections_with_pages
extract_sections_with_pages(content) == SectionsOf(FindAll(content, 1))

\* Section contents of the converted documents

\* the section content of the example: a sentence, a blank line and a grid
\* whose separator row is |-|-|
BodyExample ==
    <<"T", "o", "t", "a", "l", " ", "A", "s", "s", "e", "t", "s", " ", "A", "E", "D", " ", "1", "0", "0", " ", "m", "i", "l", "l", "i", "o", "n", "\n", "\n", "|", "A", "|", "B", "|", "\n", "|", "-", "|", "-", "|", "\n", "|", "1", "|", "2", "|", "\n">>

\* the same with the separator row |---|---|
BodyDashes ==
    <<"T", "o", "t", "a", "l", " ", "A", "s", "s", "e", "t", "s", " ", "A", "E", "D", " ", "1", "0", "0", " ", "m", "i", "l", "l", "i", "o", "n", "\n", "\n", "|", "A", "|", "B", "|", "\n", "|", "-", "-", "-", "|", "-", "-", "-", "|", "\n", "|", "1", "|", "2", "|", "\n">>

\* a grid between two paragraphs
BodyTableInside ==
    <<"I", "n", "t", "r", "o", "\n", "\n", "|", "A", "|", "B", "|", "\n", "|", "-", "-", "-", "|", "-", "-", "-", "|", "\n", "|", "1", "|", "2", "|", "\n", "\n", "O", "u", "t", "r", "o", "\n">>

\* a grid and nothing else
BodyTableOnly ==
    <<"|", "A", "|", "B", "|", "\n", "|", "-", "-", "-", "|", "-", "-", "-", "|", "\n", "|", "1", "|", "2", "|", "\n", "|", "3", "|", "4", "|", "\n">>

\* two paragraphs
BodyTextOnly ==
    <<"F", "i", "r", "s", "t", " ", "p", "a", "r", "a", "g", "r", "a", "p", "h", "\n", "\n", "S", "e", "c", "o", "n", "d", " ", "p", "a", "r", "a", "g", "r", "a", "p", "h", "\n">>

\* a text line ending in a bar right above a grid
BodyPipeInLine ==
    <<"R", "a", "t", "i", "o", " ", "a", "|", "b", "|", "\n", "|", "A", "|", "B", "|", "\n", "|", "-", "-", "-", "|", "-", "-", "-", "|", "\n", "\n", "O", "u", "t", "r", "o", "\n">>

\* nothing but blanks
BodyBlank ==
    <<" ", " ", "\n">>

Bodies == {BodyExample,
           BodyDashes,
           BodyTableInside,
           BodyTableOnly,
           BodyTextOnly,
           BodyPipeInLine,
           BodyBlank}

Repeat(c, n) == [i \in 1..n |-> c]

Half == ChunkLimit \div 2

\* one paragraph longer than the limit
BodyOversized == Repeat("x", ChunkLimit + 1)

\* two paragraphs that pass the limit together
BodyTwoHalves == Repeat("a", Half) \o <<"\n", "\n">> \o Repeat("b", Half)

\* two paragraphs that reach the limit exactly, the blank line counted
BodyFits == Repeat("a", Half - 2) \o <<"\n", "\n">> \o Repeat("b", ChunkLimit - Half)

\* a paragraph longer than the limit between two short ones
BodyOversizedInside ==
    <<"I", "n", "\n", "\n">> \o Repeat("x", ChunkLimit + 1) \o <<"\n", "\n", "O", "u", "t">>

\* three paragraphs, the first two filling a chunk
BodyThree ==
    Repeat("a", Half - 2) \o <<"\n", "\n">> \o Repeat("b", ChunkLimit - Half)
    \o <<"\n", "\n">> \o Repeat("c", 3)

\* one paragraph longer than the limit, two of its lines ending in a bar
BodyOversizedBars ==
    Repeat("x", ChunkLimit - 10)
    \o <<" ", "a", "|", "b", "|", "\n", "|", "c", "|", "d", "|", "\n">>
    \o Repeat("y", 100)

LongBodies ==
    {BodyOversized, BodyTwoHalves, BodyFits, BodyOversizedInside, BodyThree,
     BodyOversizedBars}

SectionNames == {<<"B", "a", "l", "a", "n", "c", "e", " ", "S", "h", "e", "e", "t">>, <<"N", "o", "t", "e", "s">>}

PageNumbers == {<<"3">>, <<"1", "2">>}

\* "#Section <name>\n#Page <n>\n<content>", the grammar of the conversion
SectionText(name, page, body) ==
    SectionMarker \o <<" ">> \o name \o <<"\n">> \o PageMarker \o <<" ">> \o page
    \o <<"\n">> \o body

\* the converted text of the example scenario
ExampleText == SectionText(<<"B", "a", "l", "a", "n", "c", "e", " ", "S", "h", "e", "e", "t">>, <<"3">>, BodyExample)

\* text before the first section marker, and a section marker with no page
\* marker
Preamble  == <<"C", "o", "v", "e", "r", " ", "p", "a", "g", "e", "\n">>
NoPageSection == <<"#", "S", "e", "c", "t", "i", "o", "n", " ", "C", "o", "n", "t", "e", "n", "t", "s", "\n", "n", "o", " ", "p", "a", "g", "e", " ", "h", "e", "r", "e", "\n">>

\* contents of the sections of a document that names a section twice
RepeatedBodies == {BodyTextOnly, BodyDashes, BodyBlank}

DocumentTexts ==
    {SectionText(n, p, b) : n \in SectionNames, p \in PageNumbers, b \in Bodies}
    \cup {SectionText(<<"B", "a", "l", "a", "n", "c", "e", " ", "S", "h", "e", "e", "t">>, <<"3">>, b1) \o SectionText(<<"N", "o", "t", "e", "s">>, <<"1", "2">>, b2) :
             b1 \in Bodies, b2 \in Bodies}
    \cup {Preamble \o SectionText(<<"B", "a", "l", "a", "n", "c", "e", " ", "S", "h", "e", "e", "t">>, <<"3">>, BodyDashes),
          NoPageSection \o SectionText(<<"N", "o", "t", "e", "s">>, <<"3">>, BodyTextOnly),
          Preamble, <<>>}
    \cup {SectionText(<<"N", "o", "t", "e", "s">>, <<"3">>, b) : b \in LongBodies}
    \cup {SectionText(n, <<"3">>, b1) \o SectionText(n, <<"1", "2">>, b2) :
             n \in SectionNames, b1 \in RepeatedBodies, b2 \in RepeatedBodies}
    \cup {SectionText(<<"N", "o", "t", "e", "s">>, <<"3">>, BodyTextOnly)
          \o NoPageSection
          \o SectionText(<<"N", "o", "t", "e", "s">>, <<"1", "2">>, BodyTableInside)}

DocMetadata ==
    [document_type |-> "financial statement", filename |-> "fab_q1_2024.pdf",
     quarter |-> "Q1", year |-> "2024"]

\* processed_doc as process_fab_document gives it
ProcessedDoc(text) ==
    [content |-> text, metadata |-> DocMetadata, document_type |-> "financial statement"]

NoDocument == ProcessedDoc(<<>>)

---------------------------------------------------------------------------
(* SynthesisAgent, by the outcome of its completions *)

\* The synthesis completion returns an answer or raises.
SynthesisOutcomes == {"answer", "raise"}

\* The validation completion gives a JSON object (valid or not), JSON that is
\* no object, or fails (raises, or text that is not JSON).
ValidationOutcomes == {"valid", "invalid", "non_object", "failed"}

\* SynthesisAgent.validate_answer
validate_answer(outcome) ==
    CASE outcome = "valid"   -> [is_valid |-> TRUE, validation_notes |-> "ok"]
      [] outcome = "invalid" -> [is_valid |-> FALSE, validation_notes |-> "unsupported"]
      [] outcome = "non_object" -> <<"claim">>
      [] OTHER -> [is_valid |-> TRUE, validation_notes |-> "Validation failed"]

---------------------------------------------------------------------------
(* The workflow graph *)

\* stores the workflow runs against
WorkflowStores == {{}, {Chunk1, Chunk2}}

\* completions of the retrieval planning call seen by the workflow
WorkflowResponses ==
    {JsonResponse({"search_queries", "filters"}, <<"net profit">>, FilterQ1),
     JsonResponse({"search_queries", "filters"}, <<"net profit">>, FilterQ4),
     MalformedResponse}

\* completions of the calculation call seen by the workflow
WorkflowCalcCompletions ==
    {CalcObject(<<"a", "+", "b">>, <<<<VarA, Number(2)>>, <<VarB, Number(3)>>>>),
     CalcObject(<<"a", "+", "b">>, <<<<VarA, Number(2)>>>>),
     CalcRaises}

\* perform_calculation's result over the completions of the workflow, evaluated
\* once
WorkflowCalculation ==
    [completion \in WorkflowCalcCompletions |-> calculate(completion)]

\* the metric-extraction completion of the workflow's calculations
WorkflowExtraction == CHOOSE e \in ExtractionCompletions : e.kind = "json"

\* execute_retrieval over the stores, queries and completions of the workflow,
\* evaluated once
WorkflowRetrieval ==
    [st \in WorkflowStores, q \in UserQueries, resp \in WorkflowResponses |->
        execute_retrieval(st, q, resp)]

NoCalculation ==
    [called |-> FALSE, data_context |-> <<>>, extraction |-> PyNone,
     completion |-> PyNone, result |-> PyNone, extraction_calls |-> <<>>]

NoSynthesis ==
    [ran |-> FALSE, answered |-> PyNone, validated |-> PyNone, all_context |-> <<>>]

NoException == [raised |-> FALSE, message |-> ""]

NoResponse == [returned |-> FALSE]

\* the concurrent requests
QueryIds == {1, 2}

NoStates == [q \in QueryIds |-> [node |-> "idle"]]

NoReplies == [q \in QueryIds |-> <<>>]

NoRetrieval == [query |-> PyNone, response |-> MalformedResponse, results |-> <<>>]

\* execute_query: the initial AgentState, entering the graph at the orchestrator
Init ==
    /\ query \in UserQueries
    /\ plan = <<>>
    /\ context = <<>>
    /\ current_step = 0
    /\ final_answer = PyNone
    /\ validation = PyNone
    /\ retrieval_history = <<>>
    /\ calculation_results = <<>>
    /\ node = "orchestrator"
    /\ trace = <<>>
    /\ plans_created = 0
    /\ store \in WorkflowStores
    /\ search_log = <<>>
    /\ last_retrieval = NoRetrieval
    /\ last_calculation = NoCalculation
    /\ last_synthesis = NoSynthesis
    /\ exception = NoException
    /\ response = NoResponse
    /\ document = NoDocument
    /\ sections = <<>>
    /\ pending = <<>>
    /\ all_chunks = <<>>
    /\ uuids = 0
    /\ pc = "idle"
    /\ call_log = <<>>
    /\ last_search = NoSearch
    /\ last_plan = NoPlan
    /\ states = NoStates
    /\ replies = NoReplies

Visit(name, step) == [node |-> name, step |-> step]

PlanMissingAlways(p) == TRUE

\* not state.get('plan')
PlanMissing(p) == p = <<>>

NextStepStuck(step) == step

NextStepSkipsOne(step) == step + 2

\* current_step + 1
NextStep(step) == step + 1

\* FABWorkflow._orchestrator_node, then the edge chosen by should_continue
OrchestratorNode ==
    /\ node = "orchestrator"
    /\ IF PlanMissing(plan)
       THEN \E out \in PlanOutputs :
              /\ plan' = create_plan(out)
              /\ current_step' = 0
              /\ context' = <<>>
              /\ retrieval_history' = <<>>
              /\ calculation_results' = <<>>
              /\ plans_created' = plans_created + 1
       ELSE /\ current_step' = NextStep(current_step)
            /\ UNCHANGED <<plan, context, retrieval_history, calculation_results,
                           plans_created>>
    /\ node' = should_continue(plan', current_step')
    /\ trace' = Append(trace, Visit("orchestrator", current_step'))
    /\ UNCHANGED <<query, final_answer, validation, store, search_log, last_retrieval,
                   last_calculation, last_synthesis, exception, response>>
    /\ UNCHANGED <<chunker_vars, last_plan, query_vars>>

RetrievalItemOneBased(step_text, results, ctx) ==
    [type |-> "retrieval_result", step |-> step_text, results |-> results,
     timestamp |-> Len(ctx) + 1]

\* lines 132-137: the context item of a retrieval
RetrievalItem(step_text, results, ctx) ==
    [type |-> "retrieval_result", step |-> step_text, results |-> results,
     timestamp |-> Len(ctx)]

\* FABWorkflow._retrieval_node, then _should_continue_after_retrieval
RetrievalNode ==
    /\ node = "retrieval"
    /\ \E resp \in WorkflowResponses :
         LET step_text == current_step_text(plan, current_step)
             done      == WorkflowRetrieval[store, query, resp]
         IN /\ context' = context \o <<RetrievalItem(step_text, done.results, context)>>
            /\ retrieval_history' = retrieval_history \o
                 <<[step |-> current_step, query |-> step_text,
                    results_count |-> Len(done.results),
                    timestamp |-> Len(retrieval_history)]>>
            /\ search_log' = done.calls
            /\ last_retrieval' = [query |-> query, response |-> resp,
                                  results |-> done.results]
    /\ node' = should_continue_after_retrieval(plan, current_step)
    /\ trace' = Append(trace, Visit("retrieval", current_step))
    /\ UNCHANGED <<query, plan, current_step, final_answer, validation,
                   calculation_results, plans_created, store, last_calculation,
                   last_synthesis, exception, response>>
    /\ UNCHANGED <<chunker_vars, last_plan, query_vars>>

CalculationKeySingle(step) == <<"step_", 0>>

\* f"step_{current_step}"
CalculationKey(step) == <<"step_", step>>

\* calculation_results.copy() with calculation_results[key] = result
WithKey(results, key, result) ==
    [k \in DOMAIN results \cup {key} |-> IF k = key THEN result ELSE results[k]]

CalculationContextPrepended(ctx, item) == <<item>> \o ctx

\* lines 195-202: state['context'] + [item]
CalculationContext(ctx, item) == ctx \o <<item>>

\* FABWorkflow._calculation_node, then _should_continue_after_calculation
CalculationNode ==
    /\ node = "calculation"
    /\ \E completion \in WorkflowCalcCompletions :
         LET step_text == current_step_text(plan, current_step)
             calculation_result == WorkflowCalculation[completion]
             available_data == extract_numerical_data(context, WorkflowExtraction)
         IN /\ context' = CalculationContext(context,
                 [type |-> "calculation_result", step |-> step_text,
                  result |-> calculation_result, timestamp |-> Len(context)])
            /\ calculation_results' =
                 WithKey(calculation_results, CalculationKey(current_step),
                         calculation_result)
            /\ last_calculation' =
                 [called |-> TRUE, data_context |-> context,
                  extraction |-> WorkflowExtraction,
                  completion |-> completion, result |-> calculation_result,
                  extraction_calls |-> available_data.calls]
    /\ node' = should_continue_after_calculation(plan, current_step)
    /\ trace' = Append(trace, Visit("calculation", current_step))
    /\ UNCHANGED <<query, plan, current_step, final_answer, validation,
                   retrieval_history, plans_created, store, search_log,
                   last_retrieval, last_synthesis, exception, response>>
    /\ UNCHANGED <<chunker_vars, last_plan, query_vars>>

\* 'calculation_type' not in item: the test is on the keys of the context item
NoCalculationType(item) == "calculation_type" \notin DOMAIN item

\* line 64 of synthesis_agent.py: the items synthesize_answer hands to
\* _format_context
filtered_context(ctx) == SelectSeq(ctx, NoCalculationType)

AfterSynthesisContinues(p, step) == should_continue_after_retrieval(p, step)

\* workflow.add_edge("synthesis", END)
AfterSynthesis(p, step) == "finish"

\* the node raises when the synthesis completion raises (synthesize_answer has
\* no handler) or when the validation is JSON that is no object (validation.get)
SynthesisFails(answered, validated) ==
    answered = "raise" \/ validated = "non_object"

\* FABWorkflow._synthesis_node returning, then the edge to END
SynthesisNode ==
    /\ node = "synthesis"
    /\ \E answered \in SynthesisOutcomes, validated \in ValidationOutcomes :
         /\ ~SynthesisFails(answered, validated)
         /\ LET answer == "answer"
                report == validate_answer(validated)
            IN /\ final_answer' = answer
               /\ validation' = report
               /\ context' = context \o
                    <<[type |-> "final_synthesis", answer |-> answer,
                       validation |-> report, timestamp |-> Len(context)]>>
               /\ last_synthesis' = [ran |-> TRUE, answered |-> answered,
                                     validated |-> validated,
                                     all_context |-> filtered_context(context)]
    /\ node' = AfterSynthesis(plan, current_step)
    /\ trace' = Append(trace, Visit("synthesis", current_step))
    /\ UNCHANGED <<query, plan, current_step, retrieval_history,
                   calculation_results, plans_created, store, search_log,
                   last_retrieval, last_calculation, exception, response>>
    /\ UNCHANGED <<chunker_vars, last_plan, query_vars>>

\* str(e) of what the synthesis node raises: the completion's own error, or the
\* AttributeError of validation.get on a value that is no dict
SynthesisError(answered, validated) ==
    IF answered = "raise" THEN "completion failed"
    ELSE "'list' object has no attribute 'get'"

\* FABWorkflow._synthesis_node raising: the handler of lines 280-288 traces and
\* re-raises, and so do graph.invoke and execute_query (lines 351-360); no state
\* is returned
SynthesisRaises ==
    /\ node = "synthesis"
    /\ \E answered \in SynthesisOutcomes, validated \in ValidationOutcomes :
         /\ SynthesisFails(answered, validated)
         /\ exception' = [raised |-> TRUE, message |-> SynthesisError(answered, validated)]
         /\ last_synthesis' =
              [ran |-> TRUE, answered |-> answered,
               validated |-> IF answered = "raise" THEN PyNone ELSE validated,
               all_context |-> filtered_context(context)]
    /\ node' = "raised"
    /\ UNCHANGED <<query, plan, context, current_step, final_answer, validation,
                   retrieval_history, calculation_results, trace, plans_created,
                   store, search_log, last_retrieval, last_calculation, response>>
    /\ UNCHANGED <<chunker_vars, last_plan, query_vars>>

\* the keys of AgentState: the graph keeps a node's update only under these
StateKeys ==
    {"query", "plan", "context", "current_step", "final_answer",
     "retrieval_history", "calculation_results", "metadata"}

\* content_preview: result['content'][:100] + '...' if longer than 100
ContentPreview(content) ==
    IF Len(content) > PrefixLen THEN Take(content, PrefixLen) \o <<".", ".", ".">>
    ELSE content

\* FABAgentManager._extract_sources, for the results of one context item
SourcesOf(results) ==
    [i \in 1..Len(results) |->
        [section |-> results[i].metadata.section_name,
         quarter |-> results[i].metadata.quarter,
         year    |-> results[i].metadata.year,
         content_preview |-> ContentPreview(results[i].content)]]

RECURSIVE extract_sources(_)
\* FABAgentManager._extract_sources
extract_sources(ctx) ==
    IF ctx = <<>> THEN <<>>
    ELSE (IF Head(ctx).type = "retrieval_result" THEN SourcesOf(Head(ctx).results)
          ELSE <<>>)
         \o extract_sources(Tail(ctx))

AnalyzeQueryFailureReportsSuccess(e) ==
    [returned |-> TRUE, query |-> query, final_answer |-> PyNone, success |-> TRUE]

\* lines 37-44 of agents/__init__.py: the response for an exception e
AnalyzeQueryFailure(e) ==
    [returned |-> TRUE, query |-> query,
     final_answer |-> <<"Error processing query: ", e.message>>,
     success |-> FALSE, error |-> e.message]

\* FABAgentManager.analyze_query returning, execute_query having returned the
\* final state (node = "finish") or raised
AnalyzeQuery ==
    /\ node \in {"finish", "raised"}
    /\ ~response.returned
    /\ response' =
         IF node = "finish"
         THEN [returned |-> TRUE, query |-> query,
               final_answer |-> final_answer,
               sources_used |-> extract_sources(context),
               calculations_performed |-> calculation_results,
               retrieval_steps |-> retrieval_history,
               validation |-> IF "validation" \in StateKeys THEN validation ELSE <<>>,
               processing_steps |-> Len(context),
               success |-> TRUE]
         ELSE AnalyzeQueryFailure(exception)
    /\ UNCHANGED <<query, plan, context, current_step, final_answer, validation,
                   retrieval_history, calculation_results, node, trace,
                   plans_created, store, search_log, last_retrieval,
                   last_calculation, last_synthesis, exception>>
    /\ UNCHANGED <<chunker_vars, last_plan, query_vars>>

Next ==
    \/ OrchestratorNode
    \/ RetrievalNode
    \/ CalculationNode
    \/ SynthesisNode
    \/ SynthesisRaises
    \/ AnalyzeQuery

Spec == Init /\ [][Next]_vars

\* graph.invoke runs node after node until END or an exception: while a node is
\* due it is run (every external call returning)
FairSpec == Spec /\ WF_vars(Next)

---------------------------------------------------------------------------
(* execute_retrieval on its own, over stores and completions *)

RetrievalStores ==
    {{}, {Chunk1}, {Chunk1, Chunk2}, {Chunk3, Chunk4}, {Chunk1, Chunk3, Chunk4},
     {Chunk1, Chunk2, Chunk3, Chunk4},
     {Chunk1, Chunk2, Chunk3, Chunk4, Chunk5, Chunk6}}

InitRetrieval ==
    /\ query \in UserQueries
    /\ plan = <<>>
    /\ context = <<>>
    /\ current_step = 0
    /\ final_answer = PyNone
    /\ validation = PyNone
    /\ retrieval_history = <<>>
    /\ calculation_results = <<>>
    /\ node = "orchestrator"
    /\ trace = <<>>
    /\ plans_created = 0
    /\ store \in RetrievalStores
    /\ search_log = <<>>
    /\ last_retrieval = NoRetrieval
    /\ last_calculation = NoCalculation
    /\ last_synthesis = NoSynthesis
    /\ exception = NoException
    /\ response = NoResponse
    /\ document = NoDocument
    /\ sections = <<>>
    /\ pending = <<>>
    /\ all_chunks = <<>>
    /\ uuids = 0
    /\ pc = "idle"
    /\ call_log = <<>>
    /\ last_search = NoSearch
    /\ last_plan = NoPlan
    /\ states = NoStates
    /\ replies = NoReplies

\* one call of RetrievalAgent.execute_retrieval
ExecuteRetrieval ==
    /\ \E resp \in RetrievalResponses :
         LET done == execute_retrieval(store, query, resp)
         IN /\ search_log' = done.calls
            /\ last_retrieval' = [query |-> query, response |-> resp,
                                  results |-> done.results]
    /\ UNCHANGED <<workflow_vars, store, last_calculation>>
    /\ UNCHANGED <<chunker_vars, last_plan, query_vars>>

NextRetrieval == ExecuteRetrieval

SpecRetrieval == InitRetrieval /\ [][NextRetrieval]_vars

---------------------------------------------------------------------------
(* perform_calculation on its own, over data contexts and completions *)

\* a context item as the workflow's retrieval node appends it
RetrievedItem ==
    [type |-> "retrieval_result", step |-> StepRetrieveX,
     results |-> <<[content |-> Chunk1.content, metadata |-> Chunk1.metadata]>>,
     timestamp |-> 0]

\* a retrieved chunk handed over as it is
ChunkItem(chunk) == [content |-> chunk.content, metadata |-> chunk.metadata]

BlankItem == [content |-> <<" ", " ">>]

DataContexts ==
    {<<>>, <<RetrievedItem>>, <<BlankItem>>, <<ChunkItem(Chunk1)>>,
     <<ChunkItem(Chunk1), RetrievedItem, ChunkItem(Chunk2)>>}

InitCalculation ==
    /\ query \in UserQueries
    /\ plan = <<>>
    /\ context \in DataContexts
    /\ current_step = 0
    /\ final_answer = PyNone
    /\ validation = PyNone
    /\ retrieval_history = <<>>
    /\ calculation_results = <<>>
    /\ node = "calculation"
    /\ trace = <<>>
    /\ plans_created = 0
    /\ store = {}
    /\ search_log = <<>>
    /\ last_retrieval = NoRetrieval
    /\ last_calculation = NoCalculation
    /\ last_synthesis = NoSynthesis
    /\ exception = NoException
    /\ response = NoResponse
    /\ document = NoDocument
    /\ sections = <<>>
    /\ pending = <<>>
    /\ all_chunks = <<>>
    /\ uuids = 0
    /\ pc = "idle"
    /\ call_log = <<>>
    /\ last_search = NoSearch
    /\ last_plan = NoPlan
    /\ states = NoStates
    /\ replies = NoReplies

\* one call of CalculationAgent.perform_calculation; the agent keeps nothing
\* between calls, so one call from each data context shows them all
PerformCalculation ==
    /\ ~last_calculation.called
    /\ \E extraction \in ExtractionCompletions, completion \in CalcCompletions :
         LET done == perform_calculation(context, extraction, completion)
         IN last_calculation' =
                [called |-> TRUE, data_context |-> context, extraction |-> extraction,
                 completion |-> completion, result |-> done.result,
                 extraction_calls |-> done.extraction_calls]
    /\ UNCHANGED <<workflow_vars, store, search_log, last_retrieval>>
    /\ UNCHANGED <<chunker_vars, last_plan, query_vars>>

NextCalculation == PerformCalculation

SpecCalculation == InitCalculation /\ [][NextCalculation]_vars

---------------------------------------------------------------------------
(* process_document_for_storage, over converted documents *)

\* documents a caller hands over in one run
MaxDocuments == 2

\* what the embedding function and collection.add do with a batch: the
\* embeddings are computed, or get_embedding fails and gives its zero vector,
\* or collection.add raises
AddOutcomes == {"embedded", "zero vector", "raises"}

\* a chunk as the collection keeps it
StoredChunk(chunk, outcome) ==
    [id |-> chunk.id, content |-> chunk.content, metadata |-> chunk.metadata,
     embedding |-> outcome]

\* one call of process_document_for_storage as it ended
Call(outcome, value, ids, embedding) ==
    [document |-> document.content, outcome |-> outcome, value |-> value,
     ids |-> ids, embedding |-> embedding]

\* the documents a caller goes on with
FollowUpTexts == {Preamble, ExampleText}

InitChunker ==
    /\ query \in UserQueries
    /\ plan = <<>>
    /\ context = <<>>
    /\ current_step = 0
    /\ final_answer = PyNone
    /\ validation = PyNone
    /\ retrieval_history = <<>>
    /\ calculation_results = <<>>
    /\ node = "finish"
    /\ trace = <<>>
    /\ plans_created = 0
    /\ store = {}
    /\ search_log = <<>>
    /\ last_retrieval = NoRetrieval
    /\ last_calculation = NoCalculation
    /\ last_synthesis = NoSynthesis
    /\ exception = NoException
    /\ response = NoResponse
    /\ document \in {ProcessedDoc(text) : text \in DocumentTexts}
    /\ sections = <<>>
    /\ pending = <<>>
    /\ all_chunks = <<>>
    /\ uuids = 0
    /\ pc = "extract"
    /\ call_log = <<>>
    /\ last_search = NoSearch
    /\ last_plan = NoPlan
    /\ states = NoStates
    /\ replies = NoReplies

agent_vars ==
    <<workflow_vars, search_log, last_retrieval, last_calculation, last_plan,
      query_vars>>

\* a document without sections is an error of the call
ExtractSectionsOrRaise ==
    /\ pc = "extract"
    /\ sections' = extract_sections_with_pages(document.content)
    /\ pending' = sections'
    /\ pc' = IF sections' = <<>> THEN "raised" ELSE "chunk"
    /\ call_log' = IF sections' = <<>>
                   THEN Append(call_log, Call("raised", 0, {}, "none"))
                   ELSE call_log
    /\ UNCHANGED <<document, all_chunks, uuids, store, last_search>>
    /\ UNCHANGED agent_vars

\* lines 161-170: sections = self.extract_sections_with_pages(content);
\* if not sections: return 0
ExtractSections ==
    /\ pc = "extract"
    /\ sections' = extract_sections_with_pages(document.content)
    /\ pending' = sections'
    /\ pc' = IF sections' = <<>> THEN "returned" ELSE "chunk"
    /\ call_log' = IF sections' = <<>>
                   THEN Append(call_log, Call("returned", 0, {}, "none"))
                   ELSE call_log
    /\ UNCHANGED <<document, all_chunks, uuids, store, last_search>>
    /\ UNCHANGED agent_vars

\* lines 174-177: section_chunks = self.chunk_section_content(section, metadata);
\* all_chunks.extend(section_chunks)
ChunkSection ==
    /\ pc = "chunk"
    /\ LET section_chunks ==
               chunk_section_content(Head(pending), document.metadata, uuids)
       IN /\ all_chunks' = all_chunks \o section_chunks
          /\ uuids' = uuids + Len(section_chunks)
    /\ pending' = Tail(pending)
    /\ pc' = IF pending' = <<>> THEN "chunked" ELSE "chunk"
    /\ UNCHANGED <<document, sections, store, call_log, last_search>>
    /\ UNCHANGED agent_vars

\* lines 179-181: if not all_chunks: return 0
ReturnNoChunks ==
    /\ store' = store
    /\ call_log' = Append(call_log, Call("returned", 0, {}, "none"))
    /\ pc' = "returned"

\* lines 183-206: collection.add(documents, metadatas, ids) and
\* return len(documents), or the exception of collection.add raised again
AddChunks(outcome) ==
    LET ids == {all_chunks[k].id : k \in 1..Len(all_chunks)}
    IN IF outcome = "raises"
       THEN /\ store' = store
            /\ call_log' = Append(call_log, Call("raised", 0, {}, outcome))
            /\ pc' = "raised"
       ELSE /\ store' = store \cup {StoredChunk(all_chunks[k], outcome) :
                                       k \in 1..Len(all_chunks)}
            /\ call_log' = Append(call_log,
                                  Call("returned", Len(all_chunks), ids, outcome))
            /\ pc' = "returned"

StoreChunks ==
    /\ pc = "chunked"
    /\ IF all_chunks = <<>> THEN ReturnNoChunks
       ELSE \E outcome \in AddOutcomes : AddChunks(outcome)
    /\ UNCHANGED <<document, sections, pending, all_chunks, uuids, last_search>>
    /\ UNCHANGED agent_vars

\* the caller goes on: the same document once more, or another one
ProcessNext ==
    /\ pc \in {"returned", "raised"}
    /\ Len(call_log) < MaxDocuments
    /\ \E text \in {document.content} \cup FollowUpTexts :
         document' = ProcessedDoc(text)
    /\ sections' = <<>>
    /\ pending' = <<>>
    /\ all_chunks' = <<>>
    /\ pc' = "extract"
    /\ UNCHANGED <<uuids, store, call_log, last_search>>
    /\ UNCHANGED agent_vars

NextChunker == ExtractSections \/ ChunkSection \/ StoreChunks \/ ProcessNext

SpecChunker == InitChunker /\ [][NextChunker]_vars

---------------------------------------------------------------------------
(* search_chunks on its own, over stores, filters and outcomes of the query *)

SearchFilters ==
    {None}
    \cup {FinancialDataFilters(document_type, quarter, year, section) :
             document_type \in {PyNone, "financial statement", "results call"},
             quarter \in {PyNone, "Q1"},
             year \in {PyNone, "2024", "2023"},
             section \in {PyNone, "Q&A"}}

InitSearch ==
    /\ query \in UserQueries
    /\ plan = <<>>
    /\ context = <<>>
    /\ current_step = 0
    /\ final_answer = PyNone
    /\ validation = PyNone
    /\ retrieval_history = <<>>
    /\ calculation_results = <<>>
    /\ node = "finish"
    /\ trace = <<>>
    /\ plans_created = 0
    /\ store \in RetrievalStores
    /\ search_log = <<>>
    /\ last_retrieval = NoRetrieval
    /\ last_calculation = NoCalculation
    /\ last_synthesis = NoSynthesis
    /\ exception = NoException
    /\ response = NoResponse
    /\ document = NoDocument
    /\ sections = <<>>
    /\ pending = <<>>
    /\ all_chunks = <<>>
    /\ uuids = 0
    /\ pc = "idle"
    /\ call_log = <<>>
    /\ last_search = NoSearch
    /\ last_plan = NoPlan
    /\ states = NoStates
    /\ replies = NoReplies

\* one call of FABDocumentChunker.search_chunks; it changes nothing, so one
\* call from each store shows them all
SearchChunks ==
    /\ ~last_search.called
    /\ \E text \in SearchTexts, filters \in SearchFilters,
          n_results \in {1, NResults, DefaultNResults}, outcome \in QueryOutcomes :
         last_search' =
             [called |-> TRUE, query |-> text, filters |-> filters,
              n_results |-> n_results, outcome |-> outcome,
              where |-> WhereClause(filters),
              results |-> search_chunks_call(store, text, filters, n_results, outcome),
              raised |-> FALSE]
    /\ UNCHANGED <<document, sections, pending, all_chunks, uuids, pc, call_log>>
    /\ UNCHANGED <<agent_vars, store>>

NextSearch == SearchChunks

SpecSearch == InitSearch /\ [][NextSearch]_vars

---------------------------------------------------------------------------
(* create_plan on its own, over what json.loads can give for the array *)

\* a JSON object as json.loads gives it
JsonObject == [type |-> "object", n |-> 0, s |-> <<>>]

\* the elements of a JSON array in a planning completion
JsonElements ==
    {String(StepRetrieveX), String(StepCalculateY), String(StepSynthesizeZ),
     Number(1), NoneValue, JsonObject}

\* planning completions that hold a JSON array, of any elements
PlanArrays ==
    {[kind |-> "array", items |-> p] : p \in SeqsUpTo(JsonElements, MaxPlanLen)}

\* planning completions without a JSON array: prose, or an error (the call
\* raises, or the bracketed text is not JSON)
PlanTexts ==
    {[kind |-> "lines", items |-> <<LinePadded, LineBlank, StepCalculateY>>],
     [kind |-> "lines", items |-> <<LineBlank>>],
     [kind |-> "error", items |-> <<>>]}

\* create_plan has returned for a completion
Planned(completion) ==
    last_plan' = [called |-> TRUE, completion |-> completion,
                  plan |-> create_plan(completion), raised |-> FALSE]

InitPlan ==
    /\ query \in UserQueries
    /\ plan = <<>>
    /\ context = <<>>
    /\ current_step = 0
    /\ final_answer = PyNone
    /\ validation = PyNone
    /\ retrieval_history = <<>>
    /\ calculation_results = <<>>
    /\ node = "orchestrator"
    /\ trace = <<>>
    /\ plans_created = 0
    /\ store = {}
    /\ search_log = <<>>
    /\ last_retrieval = NoRetrieval
    /\ last_calculation = NoCalculation
    /\ last_synthesis = NoSynthesis
    /\ exception = NoException
    /\ response = NoResponse
    /\ document = NoDocument
    /\ sections = <<>>
    /\ pending = <<>>
    /\ all_chunks = <<>>
    /\ uuids = 0
    /\ pc = "idle"
    /\ call_log = <<>>
    /\ last_search = NoSearch
    /\ last_plan = NoPlan
    /\ states = NoStates
    /\ replies = NoReplies

\* one call of OrchestratorAgent.create_plan; the agent keeps nothing between
\* calls
CreatePlan ==
    /\ ~last_plan.called
    /\ \/ \E completion \in PlanArrays : Planned(completion)
       \/ \E completion \in PlanTexts : Planned(completion)
    /\ UNCHANGED <<workflow_vars, store, search_log, last_retrieval, last_calculation>>
    /\ UNCHANGED <<chunker_vars, query_vars>>

NextPlan == CreatePlan

SpecPlan == InitPlan /\ [][NextPlan]_vars

---------------------------------------------------------------------------
(* Properties of the workflow graph *)

TraceNodes == [i \in 1..Len(trace) |-> trace[i].node]

RECURSIVE OrchestratorSteps(_)
\* current_step as each orchestrator visit left it, in visit order
OrchestratorSteps(t) ==
    IF t = <<>> THEN <<>>
    ELSE (IF Head(t).node = "orchestrator" THEN <<Head(t).step>> ELSE <<>>)
         \o OrchestratorSteps(Tail(t))

StrictlyIncreasing(s) == \A i, j \in 1..Len(s) : i < j => s[i] < s[j]

IsPrefix(s, t) == Len(s) <= Len(t) /\ SubSeq(t, 1, Len(s)) = s

\* the text's first Len(verb) characters, upper-cased, are the verb
LeadsWith(text, verb) ==
    Len(text) >= Len(verb) /\ Upper(SubSeq(text, 1, Len(verb))) = verb

\* the text's first Len(verb) characters are the verb, letter for letter
LeadsWithExactly(text, verb) ==
    Len(text) >= Len(verb) /\ SubSeq(text, 1, Len(verb)) = verb

NoSynthesisStep(p) == \A i \in 1..Len(p) : ~LeadsWith(p[i], SYNTHESIZE)

JustRan(name) == node # "raised" /\ trace # <<>> /\ trace[Len(trace)].node = name

\* C2 as amended: after an orchestrator visit the next node is finish when
\* current_step >= len(plan), else synthesis when the step begins with
\* SYNTHESIZE once upper-cased, else calculation when it begins with CALCULATE
\* once upper-cased, else retrieval.
C2_NextNodeIgnoringCase ==
    JustRan("orchestrator") =>
        node = IF current_step >= Len(plan) THEN "finish"
               ELSE IF LeadsWith(plan[current_step + 1], SYNTHESIZE) THEN "synthesis"
               ELSE IF LeadsWith(plan[current_step + 1], CALCULATE) THEN "calculation"
               ELSE "retrieval"

C2_Witness ==
    /\ JustRan("orchestrator")
    /\ current_step = 1
    /\ Len(plan) > 1
    /\ plan[current_step + 1] = StepLowerCalc
    /\ node = "calculation"

\* C2 as stated: synthesis if the step begins with SYNTHESIZE, calculation if it
\* begins with CALCULATE, retrieval for every other step text.
C2_NextNodeAsStated ==
    JustRan("orchestrator") =>
        node = IF current_step >= Len(plan) THEN "finish"
               ELSE IF LeadsWithExactly(plan[current_step + 1], SYNTHESIZE) THEN "synthesis"
               ELSE IF LeadsWithExactly(plan[current_step + 1], CALCULATE) THEN "calculation"
               ELSE "retrieval"

ExamplePlan == <<StepRetrieveX, StepCalculateY, StepSynthesizeZ>>

ExampleNodes == <<"orchestrator", "retrieval", "orchestrator", "calculation",
                  "orchestrator", "synthesis", "finish">>

\* the nodes visited so far, finish (END) included once it is reached
Visited == TraceNodes \o (IF node = "finish" THEN <<"finish">> ELSE <<>>)

ContextTypes == [i \in 1..Len(context) |-> context[i].type]

\* C3: under the plan [RETRIEVE: X, CALCULATE: Y, SYNTHESIZE: Z] the visited
\* nodes are orchestrator, retrieval, orchestrator, calculation, orchestrator,
\* synthesis, finish in this order, and when synthesis is about to read the
\* context it holds a retrieval_result followed by a calculation_result.
C3_ExampleScenario ==
    plan = ExamplePlan =>
        /\ IsPrefix(Visited, ExampleNodes)
        /\ node = "finish" => Visited = ExampleNodes
        /\ node = "synthesis" =>
              ContextTypes = <<"retrieval_result", "calculation_result">>

C3_Witness ==
    /\ plan = ExamplePlan
    /\ node = "finish"
    /\ Visited = ExampleNodes
    /\ final_answer # PyNone

\* C4: current_step is 0 when the plan is created, every later orchestrator
\* visit raises it by 1, the other nodes leave it alone, and it stays within
\* 0..len(plan).
C4_StepMonotone ==
    /\ [](0 <= current_step /\ current_step <= Len(plan))
    /\ [][/\ current_step' >= current_step
          /\ (node = "orchestrator" /\ plan = <<>>) => current_step' = 0
          /\ (node = "orchestrator" /\ plan # <<>>) => current_step' = current_step + 1
          /\ node # "orchestrator" => current_step' = current_step]_vars

C4_Witness ==
    /\ node = "finish"
    /\ Len(plan) = MaxPlanLen
    /\ current_step = Len(plan)
    /\ SeqCount(TraceNodes, "calculation") >= 1
    /\ SeqCount(TraceNodes, "retrieval") >= 1

\* C5: create_plan is called once per query, by the first orchestrator visit,
\* and the plan it gave is never changed afterwards.
C5_PlanCreatedOnce ==
    /\ [](plans_created = IF trace = <<>> THEN 0 ELSE 1)
    /\ [][/\ plans_created' # plans_created => (trace = <<>> /\ node = "orchestrator")
          /\ plans_created > 0 => plan' = plan]_vars

C5_Witness ==
    /\ plans_created = 1
    /\ SeqCount(TraceNodes, "orchestrator") = MaxPlanLen + 1
    /\ node = "finish"

\* C6: every retrieval, calculation or synthesis visit that returns leaves the
\* previous context followed by exactly one new item, and no step removes,
\* reorders or edits an item.
C6_ContextAppendOnly ==
    [][/\ IsPrefix(context, context')
       /\ Len(context') <= Len(context) + 1
       /\ (node \in {"retrieval", "calculation"} \/ (node = "synthesis" /\ node' # "raised"))
             => Len(context') = Len(context) + 1]_vars

C6_Witness ==
    /\ Len(context) = MaxPlanLen
    /\ ContextTypes[1] = "retrieval_result"
    /\ ContextTypes[2] = "calculation_result"
    /\ ContextTypes[Len(context)] = "final_synthesis"

\* C7: the item at (0-based) position i of the context has timestamp i, so the
\* timestamps strictly increase along the context.
C7_Timestamps ==
    /\ \A i \in 1..Len(context) : context[i].timestamp = i - 1
    /\ StrictlyIncreasing([i \in 1..Len(context) |-> context[i].timestamp])

C7_Witness ==
    /\ Len(context) = MaxPlanLen
    /\ context[Len(context)].timestamp = MaxPlanLen - 1
    /\ ContextTypes[1] = "calculation_result"
    /\ ContextTypes[2] = "retrieval_result"

\* 0-based index of the first SYNTHESIZE step of a plan that has one
FirstSynthesis(p) ==
    (CHOOSE i \in 1..Len(p) :
        /\ LeadsWith(p[i], SYNTHESIZE)
        /\ \A j \in 1..(i - 1) : ~LeadsWith(p[j], SYNTHESIZE)) - 1

\* C8: once the synthesis node has run the workflow is at finish: synthesis is
\* the last node visited, no node ever runs at a plan index beyond the first
\* SYNTHESIZE step, and current_step stays at that step's index.
C8_SynthesisEnds ==
    /\ JustRan("synthesis") =>
          /\ node = "finish"
          /\ current_step = FirstSynthesis(plan)
          /\ Len(context) = FirstSynthesis(plan) + 1
    /\ \A i \in 1..Len(trace) :
          /\ trace[i].node = "synthesis" => i = Len(trace)
          /\ ~NoSynthesisStep(plan) => trace[i].step <= FirstSynthesis(plan)

C8_Witness ==
    /\ JustRan("synthesis")
    /\ node = "finish"
    /\ Len(plan) = MaxPlanLen
    /\ current_step = 0

---------------------------------------------------------------------------
(* Properties of execute_retrieval *)

\* the completion, queries and filters of the last execute_retrieval
LastResponse == last_retrieval.response
LastQueries  == ResponseQueries(last_retrieval.query, LastResponse)
LastFilters  == ResponseFilters(LastResponse)

\* a chunk's metadata carries every key of the filter set with the required value
SatisfiesAll(meta, filters) ==
    \A kv \in filters : kv[1] \in DOMAIN meta /\ meta[kv[1]] = kv[2]

MatchingChunks(filters) == {c \in store : SatisfiesAll(c.metadata, filters)}

\* the same completion with its filters cleared
Unfiltered(resp) == JsonResponse(resp.keys \cup {"filters"}, resp.search_queries, {})

\* C9: when the generated filters are non-empty and match no stored chunk, and
\* the store holds a chunk for the (at least one) query to find, execute_retrieval
\* returns what it returns for the same queries with no filters, and that is not
\* the empty list.
C9_RetryWithoutFilters ==
    (/\ LastResponse.kind = "json"
     /\ LastFilters # {}
     /\ MatchingChunks(LastFilters) = {}
     /\ LastQueries # <<>>
     /\ store # {})
    => /\ last_retrieval.results =
             execute_retrieval(store, last_retrieval.query,
                               Unfiltered(LastResponse)).results
       /\ last_retrieval.results # <<>>

C9_Witness ==
    /\ LastResponse.kind = "json"
    /\ LastFilters = FilterQ1Y2025
    /\ Len(LastQueries) = MaxQueries
    /\ LastQueries[1] # LastQueries[2]
    /\ Cardinality(store) > NResults
    /\ MatchingChunks(LastFilters) = {}
    /\ Len(last_retrieval.results) = NResults

\* the searches of one pass over the queries, as the claim has them
PassOver(site, queries, filters) ==
    [i \in 1..Len(queries) |-> [site |-> site, query |-> queries[i], filters |-> filters]]

\* the filtered searches returned nothing at all
FilteredSearchesEmpty == LastQueries = <<>> \/ MatchingChunks(LastFilters) = {}

\* C10: on the normal path the searches issued are one pass over the generated
\* queries with the filters, followed, exactly when the filters are non-empty and
\* that pass returned no result at all, by one pass over the same queries with
\* filters cleared; otherwise no search is re-issued.
C10_RetryPolicy ==
    LastResponse.kind = "json" =>
        search_log =
            PassOver("search", LastQueries,
                     IF LastFilters = {} THEN None ELSE Some(LastFilters))
            \o (IF LastFilters # {} /\ FilteredSearchesEmpty
                THEN PassOver("retry", LastQueries, None)
                ELSE <<>>)

C10_Witness ==
    /\ LastResponse.kind = "json"
    /\ LastFilters = FilterQ4
    /\ store # {}
    /\ Len(LastQueries) = MaxQueries
    /\ Len(search_log) = 2 * MaxQueries
    /\ search_log[MaxQueries + 1].site = "retry"
    /\ search_log[MaxQueries + 1].filters = None
    /\ search_log[1].filters = Some(FilterQ4)

---------------------------------------------------------------------------
(* Properties of the fallback search *)

\* a plan step as the string a search would be given
StepString(step) ==
    CASE step = StepRetrieveX   -> "RETRIEVE: X"
      [] step = StepCalculateY  -> "CALCULATE: Y"
      [] step = StepSynthesizeZ -> "SYNTHESIZE: Z"
      [] step = StepLowerCalc   -> "calculate y"
      [] step = StepMixedSynth  -> "Synthesize z"
      [] step = StepNumbered    -> "1. CALCULATE"
      [] step = StepDefault     -> "RETRIEVE: General"
      [] OTHER                  -> ""

Min(a, b) == IF a < b THEN a ELSE b

\* results are the n chunks of the whole store nearest to text, nearest first
NearestOfStore(results, text, n) ==
    /\ Len(results) = Min(Cardinality(store), n)
    /\ \A i \in 1..Len(results) :
          /\ \E c \in store : /\ c.id = results[i].id
                               /\ c.content = results[i].content
                               /\ c.metadata = results[i].metadata
          /\ \A j \in 1..Len(results) :
                i < j => Distance(text, results[i].id) < Distance(text, results[j].id)
          /\ \A c \in store :
                (\A j \in 1..Len(results) : results[j].id # c.id)
                    => Distance(text, c.id) > Distance(text, results[i].id)

\* the last retrieval planning completion did not give a JSON object
LastRetrievalFellBack ==
    last_retrieval.query # PyNone /\ LastResponse.kind # "json"

\* C11 as amended: when the retrieval planning completion is malformed, does
\* not parse or raises, execute_retrieval issues exactly one search, with no
\* filters, whose query is the user's query, returns what that search found
\* (the five nearest chunks of the whole store) and does not raise.
C11_FallbackUsesUserQuery ==
    LastRetrievalFellBack =>
        /\ search_log = <<[site |-> "fallback", query |-> query, filters |-> None]>>
        /\ NearestOfStore(last_retrieval.results, query, NResults)
        /\ (JustRan("retrieval") =>
               context[Len(context)].results = last_retrieval.results)

C11_Witness ==
    /\ JustRan("retrieval")
    /\ LastRetrievalFellBack
    /\ store # {}
    /\ Len(search_log) = 1
    /\ Len(last_retrieval.results) = Cardinality(store)
    /\ StepString(context[Len(context)].step) = "RETRIEVE: X"

\* C11 as stated: the single unfiltered search of the fallback is given the raw
\* plan-step text.
C11_FallbackUsesStepText ==
    (JustRan("retrieval") /\ LastRetrievalFellBack) =>
        /\ Len(search_log) = 1
        /\ search_log[1].filters = None
        /\ search_log[1].query = StepString(context[Len(context)].step)

---------------------------------------------------------------------------
(* Properties of the deduplication *)

RECURSIVE CollectedBy(_)
\* what the searches of a log found, one after the other
CollectedBy(log) ==
    IF log = <<>> THEN <<>>
    ELSE search_chunks(store, Head(log).query, Head(log).filters, NResults)
         \o CollectedBy(Tail(log))

\* all the results the last execute_retrieval collected, in collection order
Collected == CollectedBy(search_log)

\* the first PrefixLen characters of a result's content
Prefix(result) ==
    SubSeq(result.content, 1, Min(Len(result.content), PrefixLen))

\* positions of the results no earlier result shares its prefix with
FirstOfPrefix(all) ==
    {i \in 1..Len(all) : \A j \in 1..(i - 1) : Prefix(all[j]) # Prefix(all[i])}

RECURSIVE AtPositions(_, _, _)
\* the elements of all at the positions of keep, from position i on, in order
AtPositions(all, keep, i) ==
    IF i > Len(all) THEN <<>>
    ELSE (IF i \in keep THEN <<all[i]>> ELSE <<>>) \o AtPositions(all, keep, i + 1)

\* C12: on the normal path the returned list has no two results with the same
\* 100-character content prefix, and it is the collected results restricted,
\* in collection order, to the first result of each distinct prefix (whatever
\* the ids and the rest of the content).
C12_DedupByPrefix ==
    (last_retrieval.query # PyNone /\ LastResponse.kind = "json") =>
        LET results == last_retrieval.results
        IN /\ \A i, j \in 1..Len(results) :
                 i # j => Prefix(results[i]) # Prefix(results[j])
           /\ results = AtPositions(Collected, FirstOfPrefix(Collected), 1)
           /\ {Prefix(r) : r \in {results[i] : i \in 1..Len(results)}}
                 = {Prefix(Collected[i]) : i \in 1..Len(Collected)}

C12_Witness ==
    /\ last_retrieval.query # PyNone
    /\ LastResponse.kind = "json"
    /\ \E i, j \in 1..Len(Collected) :
          /\ i < j
          /\ Collected[i].id = "id3"
          /\ Collected[j].id = "id4"
          /\ Collected[i].content # Collected[j].content
    /\ \E i \in 1..Len(last_retrieval.results) : last_retrieval.results[i].id = "id3"
    /\ \A i \in 1..Len(last_retrieval.results) : last_retrieval.results[i].id # "id4"
    /\ Len(last_retrieval.results) >= 2

---------------------------------------------------------------------------
(* Properties of perform_calculation *)

LastCompletion == last_calculation.completion
LastResult     == last_calculation.result

\* the last perform_calculation got a JSON object from the calculation call
LastCalculationParsed == last_calculation.called /\ LastCompletion.kind = "json"

LastFormula     == Get(LastCompletion.object, "formula_used", <<>>)
LastInputValues == Get(LastCompletion.object, "input_values", <<>>)

\* the variable names a formula mentions
ReferencedNames(formula) ==
    {t \in {Tokens(formula)[i] : i \in 1..Len(Tokens(formula))} : IsName(t)}

\* the variable names input_values binds
BoundNames(input_values) == {input_values[i][1] : i \in 1..Len(input_values)}

UnboundNames(formula, input_values) ==
    ReferencedNames(formula) \ BoundNames(input_values)

\* C13: a calculation whose formula references a variable that input_values
\* does not bind returns execution_success = false, a non-null execution_error
\* and validated_result = null.
C13_UnboundVariableFails ==
    (LastCalculationParsed /\ UnboundNames(LastFormula, LastInputValues) # {}) =>
        /\ "execution_success" \in DOMAIN LastResult
        /\ LastResult.execution_success = FALSE
        /\ "execution_error" \in DOMAIN LastResult
        /\ LastResult.execution_error # PyNone
        /\ LastResult.validated_result = NoneValue

\* the metric-extraction call was issued and did not give a JSON object
ExtractionFailed ==
    /\ last_calculation.extraction_calls # <<>>
    /\ last_calculation.extraction.kind # "json"

\* the formula, after substitution, does not evaluate
EvaluationFailed ==
    /\ LastCompletion.kind = "json"
    /\ ~numexpr_evaluate(Substitute(LastFormula, LastInputValues), LastInputValues).ok

\* C14: whatever fails inside perform_calculation (the metric extraction, the
\* parsing of the calculation response, the evaluation of the formula, a
\* missing variable), the returned object carries execution_success = false
\* and an error string.
C14_EveryFailureReported ==
    (/\ last_calculation.called
     /\ (ExtractionFailed \/ LastCompletion.kind # "json" \/ EvaluationFailed))
    => /\ "execution_success" \in DOMAIN LastResult
       /\ LastResult.execution_success = FALSE
       /\ ("execution_error" \in DOMAIN LastResult \/ "error" \in DOMAIN LastResult)

---------------------------------------------------------------------------
(* Properties of the workflow under failing external calls *)

\* the retrieval node has just run and its planning completion failed
DegradedRetrieval == JustRan("retrieval") /\ LastRetrievalFellBack

\* the calculation node has just run and its calculation completion raised
DegradedCalculation ==
    /\ JustRan("calculation")
    /\ last_calculation.called
    /\ LastCompletion.kind = "raise"

Degraded == DegradedRetrieval \/ DegradedCalculation

\* the orchestrator has visited plan index k (0-based)
OrchestratorReached(k) ==
    \E i \in 1..Len(trace) : trace[i] = Visit("orchestrator", k)

\* the retrieval and calculation visits so far
StepVisits == SeqCount(TraceNodes, "retrieval") + SeqCount(TraceNodes, "calculation")

\* C15: when the completion call of a retrieval or calculation step fails, the
\* node does not raise: it appends exactly one context item for that step
\* carrying the degraded result (the fallback search's results, or the error
\* object), control returns to the orchestrator, which goes on to the next plan
\* index, and the run ends at finish (or, when the plan has a SYNTHESIZE step,
\* at that later node's own exception).
C15_FailureKeepsWorkflowAlive ==
    /\ [](Degraded =>
            /\ node = "orchestrator"
            /\ Len(context) = StepVisits
            /\ context[Len(context)].step = plan[current_step + 1]
            /\ context[Len(context)].timestamp = Len(context) - 1)
    /\ [](DegradedRetrieval =>
            /\ context[Len(context)].type = "retrieval_result"
            /\ context[Len(context)].results = last_retrieval.results
            /\ NearestOfStore(context[Len(context)].results, query, NResults))
    /\ [](DegradedCalculation =>
            /\ context[Len(context)].type = "calculation_result"
            /\ "error" \in DOMAIN context[Len(context)].result
            /\ context[Len(context)].result.calculation_type = "error"
            /\ calculation_results[CalculationKey(current_step)]
                 = context[Len(context)].result)
    /\ \A k \in 0..MaxPlanLen :
          (Degraded /\ current_step = k) ~> OrchestratorReached(k + 1)
    /\ Degraded ~> (node = "finish" \/ node = "raised")
    /\ (Degraded /\ NoSynthesisStep(plan)) ~> (node = "finish")

C15_Witness ==
    /\ node = "finish"
    /\ Len(plan) = MaxPlanLen
    /\ Len(context) = MaxPlanLen
    /\ context[1].type = "calculation_result"
    /\ "error" \in DOMAIN context[1].result
    /\ context[2].type = "retrieval_result"
    /\ LastRetrievalFellBack
    /\ context[2].results # <<>>
    /\ context[Len(context)].type = "final_synthesis"

---------------------------------------------------------------------------
(* Properties of analyze_query and of a raising node *)

ResponseKeys ==
    {"query", "final_answer", "sources_used", "calculations_performed",
     "retrieval_steps", "validation", "processing_steps", "success"}

\* C16: analyze_query returns whether the workflow finished or raised; when it
\* raised the response has success = false, the exception's message as error
\* and a final_answer text quoting it; success = true is returned only when the
\* workflow reached finish with no exception, with every key of the response.
C16_AnalyzeQueryNeverRaises ==
    /\ [](response.returned =>
            /\ response.query = query
            /\ response.success = (node = "finish" /\ ~exception.raised)
            /\ ~response.success =>
                  /\ node = "raised"
                  /\ "error" \in DOMAIN response
                  /\ response.error = exception.message
                  /\ response.error # ""
                  /\ response.final_answer
                       = <<"Error processing query: ", exception.message>>
            /\ response.success =>
                  /\ ResponseKeys \subseteq DOMAIN response
                  /\ response.processing_steps = Len(context)
                  /\ response.final_answer = final_answer)
    /\ (node \in {"finish", "raised"}) ~> response.returned

C16_Witness ==
    /\ response.returned
    /\ ~response.success
    /\ node = "raised"
    /\ exception.raised
    /\ Len(context) = MaxPlanLen - 1

\* C17: when a node handler raises, no later node has run, no context item or
\* final answer has been added, and the exception that reaches the caller of
\* execute_query names the failing node and its step.
C17_AbortCarriesNodeAndStep ==
    node = "raised" =>
        /\ exception.raised
        /\ final_answer = PyNone
        /\ \A i \in 1..Len(context) : context[i].type # "final_synthesis"
        /\ Len(context) = StepVisits
        /\ "node" \in DOMAIN exception
        /\ exception.node = "synthesis"
        /\ "step" \in DOMAIN exception
        /\ exception.step = current_step

\* C18: once the synthesis completion has given an answer, the workflow is at
\* finish with that answer and the validation report beside it, whether the
\* report says valid or not, and a validation call that failed is reported as
\* is_valid = true with a note.
C18_ValidationNeverBlocks ==
    (last_synthesis.ran /\ last_synthesis.answered = "answer") =>
        /\ node = "finish"
        /\ final_answer # PyNone
        /\ context[Len(context)].type = "final_synthesis"
        /\ context[Len(context)].answer = final_answer
        /\ context[Len(context)].validation = validation
        /\ "is_valid" \in DOMAIN validation
        /\ last_synthesis.validated = "valid" => validation.is_valid
        /\ last_synthesis.validated = "invalid" => ~validation.is_valid
        /\ last_synthesis.validated = "failed" =>
              /\ validation.is_valid
              /\ validation.validation_notes = "Validation failed"

---------------------------------------------------------------------------
(* Properties of the chunking: C19, C20 *)

\* the chunks made for one section, in the order they were made
ChunksOf(section) ==
    SelectSeq(all_chunks, LAMBDA c : /\ c.metadata.section_name = section.section_name
                                     /\ c.metadata.page_number = section.page_number)

Contains(s, pat) == Find(s, pat, 1) # 0

AssetsSentence == <<"T", "o", "t", "a", "l", " ", "A", "s", "s", "e", "t", "s", " ", "A", "E", "D", " ", "1", "0", "0", " ", "m", "i", "l", "l", "i", "o", "n">>
Grid == <<"|", "A", "|", "B", "|", "\n", "|", "-", "|", "-", "|", "\n", "|", "1", "|", "2", "|">>

\* C19: for the raw text of the example scenario (a Balance Sheet section on
\* page 3 holding one sentence, a blank line and the grid |A|B|, |-|-|, |1|2|)
\* extraction and chunking give exactly two chunks for the section, a text
\* chunk containing the sentence and a table chunk containing the whole grid,
\* both with page_number = 3.
C19_ExampleYieldsTextAndTable ==
    (document.content = ExampleText /\ pc = "chunked") =>
        /\ Len(sections) = 1
        /\ Len(all_chunks) = 2
        /\ \E i, j \in 1..Len(all_chunks) :
             /\ all_chunks[i].metadata.content_type = "text"
             /\ Contains(all_chunks[i].content, AssetsSentence)
             /\ all_chunks[j].metadata.content_type = "table"
             /\ Contains(all_chunks[j].content, Grid)
        /\ \A i \in 1..Len(all_chunks) : all_chunks[i].metadata.page_number = 3

Lines(s) == SplitOn(s, <<"\n">>)

\* a line of a grid: it begins and ends with the column marker
GridLine(line) ==
    LET l == StripWhitespace(line)
    IN Len(l) >= 2 /\ l[1] = "|" /\ l[Len(l)] = "|"

\* a separator line: a grid line containing a run of dashes
SeparatorLine(line) == GridLine(line) /\ Contains(line, <<"-">>)

\* the table blocks of a text, as <<first line, last line>>: a header line
\* that no grid line precedes, a separator line right after it, and the grid
\* lines that follow
TableBlocks(s) ==
    LET lines == Lines(s)
        n == Len(lines)
        Starts(i) == /\ GridLine(lines[i])
                     /\ i < n /\ SeparatorLine(lines[i + 1])
                     /\ (i = 1 \/ ~GridLine(lines[i - 1]))
        Last(i) == MaxOf({j \in i..n : \A k \in i..j : GridLine(lines[k])})
    IN {<<i, Last(i)>> : i \in {k \in 1..n : Starts(k)}}

RECURSIVE JoinLines(_, _, _)
\* lines i..j of a text, joined by newlines again
JoinLines(lines, i, j) ==
    IF i > j THEN <<>>
    ELSE IF i = j THEN lines[i]
    ELSE lines[i] \o <<"\n">> \o JoinLines(lines, i + 1, j)

\* the text that stands between the previous table block (or the start of the
\* section) and line i
TextBefore(s, i) ==
    LET lines == Lines(s)
        before == {b[2] : b \in {c \in TableBlocks(s) : c[2] < i}}
        from == IF before = {} THEN 1 ELSE MaxOf(before) + 1
    IN StripWhitespace(JoinLines(lines, from, i - 1))

\* one table block of a section is given as the claim has it: exactly one
\* table chunk holds the lines of the block and nothing else, and the text
\* accumulated before it is the chunk right before it
EmittedAsOneTableChunk(section, block) ==
    LET chunks == ChunksOf(section)
        grid == StripWhitespace(JoinLines(Lines(section.content), block[1], block[2]))
        holders == {k \in 1..Len(chunks) :
                       /\ chunks[k].metadata.content_type = "table"
                       /\ Contains(chunks[k].content, Lines(section.content)[block[1]])}
    IN /\ Cardinality(holders) = 1
       /\ \A k \in holders :
            /\ chunks[k].content = grid
            /\ TextBefore(section.content, block[1]) # <<>> =>
                 /\ k > 1
                 /\ chunks[k - 1].metadata.content_type = "text"
                 /\ Contains(chunks[k - 1].content,
                             StripWhitespace(Lines(section.content)[block[1] - 1]))

\* C20: every table block of a section (a header line, a separator line
\* containing a run of dashes, and the data lines after them) comes out of
\* chunk_section_content as exactly one chunk with content_type = table that
\* holds all the lines of the block and no adjacent text, and the text
\* accumulated before the table is a chunk of its own before the table chunk.
C20_TableBlockIsOneChunk ==
    pc = "chunked" =>
        \A i \in 1..Len(sections) :
            \A block \in TableBlocks(sections[i].content) :
                EmittedAsOneTableChunk(sections[i], block)

---------------------------------------------------------------------------
(* Properties of the chunk size: C21 *)

\* the paragraphs of a section content: its pieces between blank lines,
\* stripped, the blank ones left out
ParagraphsOf(content) == StrippedParts(SplitOn(content, <<"\n", "\n">>))

SeqRange(seq) == {seq[i] : i \in 1..Len(seq)}

TextChunks(chunks) ==
    {k \in 1..Len(chunks) : chunks[k].metadata.content_type = "text"}

\* C21: every chunk of chunk_section_content that is no table has at most
\* ChunkLimit characters, unless it is one single paragraph longer than that;
\* and a paragraph longer than the limit is a chunk as a whole, neither split
\* nor cut.
C21_ChunkSizeBound ==
    pc = "chunked" =>
        \A i \in 1..Len(sections) :
            LET chunks == ChunksOf(sections[i])
                paragraphs == SeqRange(ParagraphsOf(sections[i].content))
            IN /\ \A k \in TextChunks(chunks) :
                    \/ Len(chunks[k].content) <= ChunkLimit
                    \/ /\ chunks[k].content \in paragraphs
                       /\ ~Contains(chunks[k].content, <<"\n", "\n">>)
               /\ \A paragraph \in paragraphs :
                    Len(paragraph) > ChunkLimit =>
                        \E k \in TextChunks(chunks) : chunks[k].content = paragraph

---------------------------------------------------------------------------
(* Properties of the chunk sequence of a section: C22, C23 *)

RECURSIVE JoinChunks(_)
\* the contents of the chunks one after the other, a newline between them
JoinChunks(chunks) ==
    IF chunks = <<>> THEN <<>>
    ELSE IF Len(chunks) = 1 THEN chunks[1].content
    ELSE chunks[1].content \o <<"\n">> \o JoinChunks(Tail(chunks))

\* a text without its whitespace
NonBlank(text) == SelectSeq(text, LAMBDA c : c \notin Blank)

\* the lines of a text, stripped, the blank ones left out
LinesOf(text) == StrippedParts(Lines(text))

\* C22: the chunks of one section, concatenated in the order of their chunk
\* index, give the content of the section again up to whitespace where the
\* segments meet: every paragraph and every table line is in exactly one
\* chunk, in the original order, nothing is dropped and nothing duplicated.
C22_ConcatenationReproducesContent ==
    pc = "chunked" =>
        \A i \in 1..Len(sections) :
            LET joined == JoinChunks(ChunksOf(sections[i]))
            IN /\ NonBlank(joined) = NonBlank(sections[i].content)
               /\ LinesOf(joined) = LinesOf(sections[i].content)

\* C23: within one section the chunk index kept in the metadata is 0 for the
\* first chunk and one more for each chunk after it, in the order the chunks
\* are made, so that n chunks have the indices 0..n-1; the counter starts at 0
\* again for every section, whatever the other sections gave.
C23_ChunkIndexPerSection ==
    \A i \in 1..Len(sections) :
        LET chunks == ChunksOf(sections[i])
        IN \A k \in 1..Len(chunks) : chunks[k].metadata.chunk_id = k - 1

\* two sections of several chunks each have been chunked
C23_Witness ==
    /\ pc = "chunked"
    /\ Len(sections) = 2
    /\ Len(ChunksOf(sections[1])) >= 2
    /\ Len(ChunksOf(sections[2])) >= 2
    /\ all_chunks[Len(all_chunks)].metadata.chunk_id = Len(ChunksOf(sections[2])) - 1

---------------------------------------------------------------------------
(* Properties of the section extraction: C24 *)

\* a document written section by section, each <<name, page, content>>
RECURSIVE TextOf(_)
TextOf(entries) ==
    IF entries = <<>> THEN <<>>
    ELSE SectionText(Head(entries)[1], Head(entries)[2], Head(entries)[3])
         \o TextOf(Tail(entries))

RECURSIVE RecordsOf(_)
\* the records the sections of such a document are to give: one for each
\* section whose content is not blank, in the order of the document
RecordsOf(entries) ==
    IF entries = <<>> THEN <<>>
    ELSE (IF StripWhitespace(Head(entries)[3]) = <<>> THEN <<>>
          ELSE <<[section_name |-> Head(entries)[1],
                  page_number  |-> NatValue(Head(entries)[2]),
                  content      |-> StripWhitespace(Head(entries)[3])]>>)
         \o RecordsOf(Tail(entries))

Entry == SectionNames \X PageNumbers \X Bodies

Entries == {<<e>> : e \in Entry} \cup {<<e1, e2>> : e1 \in Entry, e2 \in Entry}

\* C24: extract_sections_with_pages gives one record for each section marker
\* that a page marker follows, in the order of the document; a section whose
\* content is blank gives none; two sections of the same name give two
\* records; the content of a record is the text up to the next section marker
\* or the end of the input.  Text before the first marker and a marker without
\* page marker give no record.
C24_OneRecordPerSection ==
    pc # "extract" =>
        /\ \A entries \in Entries :
             /\ document.content = TextOf(entries) => sections = RecordsOf(entries)
             /\ document.content = Preamble \o TextOf(entries) =>
                    sections = RecordsOf(entries)
             /\ document.content = NoPageSection \o TextOf(entries) =>
                    sections = RecordsOf(entries)
        /\ \A e1 \in Entry, e2 \in Entry :
             document.content = TextOf(<<e1>>) \o NoPageSection \o TextOf(<<e2>>) =>
                 sections = RecordsOf(<<e1, e2>>)
        /\ document.content \in {Preamble, <<>>} => sections = <<>>

\* two sections of one name were found, on different pages
C24_Witness ==
    /\ pc # "extract"
    /\ Len(sections) = 2
    /\ sections[1].section_name = sections[2].section_name
    /\ sections[1].page_number # sections[2].page_number

---------------------------------------------------------------------------
(* Properties of process_document_for_storage: C25, C26, C27 *)

LastCall == call_log[Len(call_log)]

\* a call that found no section, or whose sections gave no chunk, has ended
EndedWithoutChunks ==
    /\ pc \in {"returned", "raised"}
    /\ call_log # <<>>
    /\ all_chunks = <<>>

\* C25: when no section is found in a document, or the sections give no
\* chunk, process_document_for_storage returns 0, adds nothing to the store,
\* leaves the store as it was and does not raise; a caller with several
\* documents goes on with the next one.
C25_NoSectionReturnsZero ==
    [][/\ (pc \in {"extract", "chunked"} /\ pc' \in {"returned", "raised"}
           /\ all_chunks = <<>>) =>
              /\ pc' = "returned"
              /\ store' = store
              /\ call_log' = Append(call_log, Call("returned", 0, {}, "none"))
       /\ (pc = "extract" /\ sections' = <<>>) => pc' = "returned"
       /\ (EndedWithoutChunks /\ Len(call_log) < MaxDocuments) =>
              ENABLED ProcessNext
      ]_vars

\* after a document without sections the caller went on, and the next document
\* gave chunks
C25_Witness ==
    /\ Len(call_log) = 2
    /\ call_log[1].outcome = "returned" /\ call_log[1].value = 0
    /\ call_log[2].outcome = "returned" /\ call_log[2].value > 0
    /\ store # {}

RECURSIVE Added(_)
\* the number of chunks the calls of a log say they added
Added(log) == IF log = <<>> THEN 0 ELSE Head(log).value + Added(Tail(log))

StoredIds == {c.id : c \in store}

\* C26: every chunk gets an id of its own when it is made, so that a document
\* processed k times leaves k times its chunks in the store under ids that
\* differ pairwise; an insert never overwrites a chunk that is there; and the
\* value process_document_for_storage returns is the number of chunks the
\* call added.
C26_FreshIdsNoUpsert ==
    /\ [](/\ Cardinality(StoredIds) = Cardinality(store)
          /\ Cardinality(store) = Added(call_log)
          /\ \A i \in 1..Len(call_log) :
               /\ Cardinality(call_log[i].ids) = call_log[i].value
               /\ call_log[i].ids \subseteq StoredIds
               /\ \A j \in 1..Len(call_log) :
                    /\ i # j => call_log[i].ids \cap call_log[j].ids = {}
                    /\ (/\ call_log[i].document = call_log[j].document
                        /\ call_log[i].outcome = "returned"
                        /\ call_log[j].outcome = "returned") =>
                           call_log[i].value = call_log[j].value)
    /\ [][/\ store \subseteq store'
          /\ call_log' # call_log =>
                Cardinality(store') - Cardinality(store) =
                    call_log'[Len(call_log')].value]_vars

\* one document was processed twice and its chunks are in the store twice
C26_Witness ==
    /\ Len(call_log) = 2
    /\ call_log[1].document = call_log[2].document
    /\ call_log[1].value >= 2
    /\ call_log[2].outcome = "returned"
    /\ Cardinality(store) = 2 * call_log[1].value

\* C27: when the embedding function fails for the batch that is inserted, the
\* insert fails with an error that reaches the caller: no chunk is stored
\* with an embedding put in place of the real one, and the call reports no
\* count of stored chunks.
C27_EmbeddingFailurePropagates ==
    /\ \A c \in store : c.embedding # "zero vector"
    /\ \A i \in 1..Len(call_log) :
         call_log[i].embedding = "zero vector" => call_log[i].outcome = "raised"

---------------------------------------------------------------------------
(* Properties of search_chunks: C28, C29 *)

\* the filters of the last search as a set of <<key, value>>
SearchItems == IF last_search.filters.is_none THEN {} ELSE last_search.filters.items

\* the stored chunks that meet every filter of the last search
Matching ==
    {c \in store : \A kv \in SearchItems :
                      kv[1] \in DOMAIN c.metadata /\ c.metadata[kv[1]] = kv[2]}

\* C28: when the embedding or the nearest-neighbour call raises during a
\* search, the search fails with an error that reaches its caller; an empty
\* sequence is returned only when nothing matches, so that the caller can tell
\* a failed search from a search without match.
C28_SearchFailurePropagates ==
    last_search.called =>
        /\ last_search.outcome # "answers" => last_search.raised
        /\ (~last_search.raised /\ last_search.results = <<>>) => Matching = {}

ResultIds == {last_search.results[k].id : k \in 1..Len(last_search.results)}

\* C29: search_chunks makes its metadata constraint of the filter mapping:
\* no filter (none given, or an empty mapping) is a search without constraint,
\* exactly one filter is an equality on that key, two or more filters are a
\* conjunction in which every key must equal its value; so a chunk that is
\* returned meets every filter given.
C29_FiltersToConstraint ==
    (last_search.called /\ last_search.outcome = "answers") =>
        /\ Cardinality(SearchItems) = 0 => last_search.where = NoWhere
        /\ Cardinality(SearchItems) = 1 =>
               last_search.where = [op |-> "eq", conds |-> SearchItems]
        /\ Cardinality(SearchItems) >= 2 =>
               last_search.where = [op |-> "$and", conds |-> SearchItems]
        /\ ResultIds \subseteq {c.id : c \in Matching}
        /\ Len(last_search.results) =
               Min(last_search.n_results, Cardinality(Matching))
        /\ \A c \in Matching :
               c.id \notin ResultIds =>
                   \A k \in 1..Len(last_search.results) :
                       last_search.results[k].distance
                           <= Distance(last_search.query, c.id)

\* a search with two filters left out chunks that met only one of them
C29_Witness ==
    /\ last_search.called
    /\ last_search.outcome = "answers"
    /\ Cardinality(SearchItems) >= 2
    /\ last_search.results # <<>>
    /\ \E c \in store \ Matching, kv \in SearchItems : c.metadata[kv[1]] = kv[2]

---------------------------------------------------------------------------
(* Properties of create_plan: C30 *)

\* the plan of the last call is what json.loads gave for a non-empty array
PlanIsParsedArray ==
    last_plan.completion.kind = "array" /\ Len(last_plan.completion.items) > 0

\* C30: for any output of the planning completion (a JSON array of strings, a
\* JSON array of elements that are no strings, an empty array, prose without
\* array, an error) create_plan does not raise and returns a list that is not
\* empty and whose every element is a step string; when the output cannot be
\* used it returns the default plan.
C30_PlanAlwaysStepStrings ==
    last_plan.called =>
        /\ ~last_plan.raised
        /\ Len(last_plan.plan) > 0
        /\ PlanIsParsedArray =>
               \A k \in 1..Len(last_plan.plan) : last_plan.plan[k].type = "string"
        /\ (\/ last_plan.completion.kind = "error"
            \/ /\ last_plan.completion.kind = "lines"
               /\ Len(StrippedNonEmpty(last_plan.completion.items)) = 0
            \/ Len(last_plan.completion.items) = 0) =>
               last_plan.plan = DefaultPlan

---------------------------------------------------------------------------
(* Properties of the context against the plan: C32 *)

StepTypes == {"retrieval_result", "calculation_result"}

RECURSIVE StepVisitSteps(_)
\* current_step of each retrieval or calculation visit, in visit order
StepVisitSteps(t) ==
    IF t = <<>> THEN <<>>
    ELSE (IF Head(t).node \in {"retrieval", "calculation"} THEN <<Head(t).step>>
          ELSE <<>>)
         \o StepVisitSteps(Tail(t))

\* C32: each retrieval or calculation visit executes the plan entry at the
\* current step and no plan entry is executed twice: the item at (0-based)
\* position i of the context, when it is a retrieval_result or a
\* calculation_result, carries the step text plan[i], and the k-th such visit
\* ran at plan index k.
C32_OneEntryPerVisit ==
    /\ \A i \in 1..Len(context) :
          context[i].type \in StepTypes =>
              /\ i <= Len(plan)
              /\ context[i].step = plan[i]
    /\ StrictlyIncreasing(StepVisitSteps(trace))
    /\ \A k \in 1..Len(StepVisitSteps(trace)) : StepVisitSteps(trace)[k] = k - 1

C32_Witness ==
    /\ node = "finish"
    /\ Len(plan) = MaxPlanLen
    /\ Len(context) = MaxPlanLen
    /\ context[1].type = "retrieval_result"
    /\ context[2].type = "calculation_result"
    /\ context[3].type = "retrieval_result"
    /\ context[2].step = StepLowerCalc
    /\ context[3].step = StepRetrieveX
    /\ StepVisitSteps(trace) = <<0, 1, 2>>

---------------------------------------------------------------------------
(* Properties of the edges after retrieval and calculation: C35 *)

\* the node that returned last
LastNode == trace[Len(trace)].node

\* C35: the finish branch of the checks after retrieval and calculation is
\* never taken: when the retrieval or the calculation node has just run,
\* current_step < len(plan) and the next node is the orchestrator; finish is
\* reached only from the orchestrator or from synthesis.
C35_FinishNeverAfterStep ==
    /\ (JustRan("retrieval") \/ JustRan("calculation")) =>
          /\ current_step < Len(plan)
          /\ should_continue_after_retrieval(plan, current_step) = "orchestrator"
          /\ should_continue_after_calculation(plan, current_step) = "orchestrator"
          /\ node = "orchestrator"
    /\ node = "finish" =>
          /\ trace # <<>>
          /\ LastNode \in {"orchestrator", "synthesis"}
          /\ LastNode = "orchestrator" => current_step = Len(plan)

C35_Witness ==
    /\ JustRan("retrieval")
    /\ Len(plan) = MaxPlanLen
    /\ current_step = Len(plan) - 1
    /\ node = "orchestrator"
    /\ SeqCount(TraceNodes, "calculation") >= 1

---------------------------------------------------------------------------
(* Properties of the context the synthesis formats: C33 *)

\* the items of a sequence
Items(s) == {s[i] : i \in 1..Len(s)}

\* C33: the context synthesize_answer formats is the accumulated context
\* without the items the calculation node appended: no calculation_result item
\* is among the formatted items, and every retrieval_result item is.
C33_FormattedContextDropsCalculations ==
    last_synthesis.ran =>
        \A i \in 1..Len(context) :
            /\ context[i].type = "calculation_result" =>
                  context[i] \notin Items(last_synthesis.all_context)
            /\ context[i].type = "retrieval_result" =>
                  context[i] \in Items(last_synthesis.all_context)

---------------------------------------------------------------------------
(* Properties of the metric extraction inside the workflow: C34 *)

\* the chunks with non-empty content that the retrieval steps before the last
\* calculation returned
RetrievedChunks(data_context) ==
    UNION {{item.results[j] : j \in {k \in 1..Len(item.results) :
                                        item.results[k].content # <<>>}} :
           item \in {it \in Items(data_context) : it.type = "retrieval_result"}}

\* C34: when the calculation node runs after at least one retrieval step that
\* returned chunks with non-empty content, the metric-extraction call is issued,
\* on a non-empty combined content that includes the content of every retrieved
\* chunk.
C34_ExtractionOnRetrievedContent ==
    (JustRan("calculation") /\ RetrievedChunks(last_calculation.data_context) # {}) =>
        /\ Len(last_calculation.extraction_calls) = 1
        /\ StripWhitespace(last_calculation.extraction_calls[1]) # <<>>
        /\ \A chunk \in RetrievedChunks(last_calculation.data_context) :
              Contains(last_calculation.extraction_calls[1], chunk.content)

---------------------------------------------------------------------------
(* Properties of a run without synthesis: C36 *)

SynthesisRan == SeqCount(TraceNodes, "synthesis") >= 1

\* C36: at finish, final_answer is non-null if and only if the synthesis node
\* ran; a plan with no SYNTHESIZE step reaches finish with final_answer null
\* and no validation report, and analyze_query then returns success = true with
\* that null answer and an empty validation.
C36_AnswerOnlyFromSynthesis ==
    /\ [](node = "finish" => ((final_answer # PyNone) <=> SynthesisRan))
    /\ []((plan # <<>> /\ NoSynthesisStep(plan)) =>
            /\ ~SynthesisRan
            /\ final_answer = PyNone
            /\ validation = PyNone
            /\ response.returned =>
                  /\ node = "finish"
                  /\ response.success
                  /\ response.final_answer = PyNone
                  /\ response.validation = <<>>
                  /\ response.processing_steps = Len(plan))
    /\ (plan # <<>> /\ NoSynthesisStep(plan)) ~> (node = "finish" /\ response.returned)

C36_Witness ==
    /\ node = "finish"
    /\ Len(plan) = MaxPlanLen
    /\ NoSynthesisStep(plan)
    /\ final_answer = PyNone
    /\ response.returned
    /\ response.success
    /\ response.final_answer = PyNone
    /\ Len(context) = MaxPlanLen

---------------------------------------------------------------------------
(* Properties of the bookkeeping beside the context: C37 *)

\* the (1-based) positions of the context that hold an item of a type
PositionsOf(type) == {i \in 1..Len(context) : context[i].type = type}

\* the k-th smallest member of a set of numbers
Nth(S, k) == CHOOSE x \in S : Cardinality({y \in S : y < x}) = k - 1

\* C37: the bookkeeping agrees with the context: retrieval_history has one
\* entry per retrieval_result item, entry k (0-based) with timestamp k and the
\* plan index, step text and result count of the k-th retrieval item;
\* calculation_results has one key step_<index> per calculation_result item,
\* holding that item's result, and no key is ever overwritten or removed; and
\* len(context) = len(retrieval_history) + size(calculation_results) + 1 if
\* synthesis has run, + 0 otherwise.
C37_BookkeepingAgrees ==
    /\ [](/\ Len(retrieval_history) = Cardinality(PositionsOf("retrieval_result"))
          /\ \A k \in 1..Len(retrieval_history) :
                LET i == Nth(PositionsOf("retrieval_result"), k)
                IN /\ retrieval_history[k].timestamp = k - 1
                   /\ retrieval_history[k].step = i - 1
                   /\ retrieval_history[k].query = context[i].step
                   /\ retrieval_history[k].query = plan[i]
                   /\ retrieval_history[k].results_count = Len(context[i].results)
          /\ DOMAIN calculation_results
               = {CalculationKey(i - 1) : i \in PositionsOf("calculation_result")}
          /\ Cardinality(DOMAIN calculation_results)
               = Cardinality(PositionsOf("calculation_result"))
          /\ \A i \in PositionsOf("calculation_result") :
                calculation_results[CalculationKey(i - 1)] = context[i].result
          /\ Len(context) = Len(retrieval_history)
                            + Cardinality(DOMAIN calculation_results)
                            + (IF SynthesisRan THEN 1 ELSE 0))
    /\ [][\A key \in DOMAIN calculation_results :
             /\ key \in DOMAIN calculation_results'
             /\ calculation_results'[key] = calculation_results[key]]_vars

C37_Witness ==
    /\ node = "finish"
    /\ SynthesisRan
    /\ Len(context) = MaxPlanLen
    /\ Len(retrieval_history) = 1
    /\ retrieval_history[1].step = 1
    /\ retrieval_history[1].timestamp = 0
    /\ DOMAIN calculation_results = {CalculationKey(0)}

---------------------------------------------------------------------------
(* Frame of each node: C38 *)

\* C38: each node changes only its own part of the workflow state: an
\* orchestrator visit after the plan was created changes current_step alone; a
\* retrieval visit changes context and retrieval_history alone; a calculation
\* visit changes context and calculation_results alone; a synthesis visit
\* changes nothing but final_answer, validation and context; none of them
\* changes query or plan.
C38_NodeFrames ==
    [][/\ (node = "orchestrator" /\ plan # <<>>) =>
             /\ current_step' # current_step
             /\ UNCHANGED <<query, plan, context, final_answer, validation,
                            retrieval_history, calculation_results>>
       /\ node = "retrieval" =>
             /\ context' # context
             /\ retrieval_history' # retrieval_history
             /\ UNCHANGED <<query, plan, current_step, final_answer, validation,
                            calculation_results>>
       /\ node = "calculation" =>
             /\ context' # context
             /\ calculation_results' # calculation_results
             /\ UNCHANGED <<query, plan, current_step, final_answer, validation,
                            retrieval_history>>
       /\ node = "synthesis" =>
             /\ node' = "finish" => (context' # context /\ final_answer' # final_answer)
             /\ UNCHANGED <<query, plan, current_step, retrieval_history,
                            calculation_results>>]_vars

C38_Witness ==
    /\ node = "finish"
    /\ plan = <<StepCalculateY, StepRetrieveX, StepMixedSynth>>
    /\ current_step = 2
    /\ Len(retrieval_history) = 1
    /\ DOMAIN calculation_results = {CalculationKey(0)}
    /\ final_answer = "answer"
    /\ last_synthesis.validated = "invalid"
    /\ ContextTypes = <<"calculation_result", "retrieval_result", "final_synthesis">>

---------------------------------------------------------------------------
(* execute_query called concurrently on one FABWorkflow, over one store *)

\* the query text of each request
QueryText(q) == IF q = 1 THEN "What is the net profit?" ELSE "total assets"

\* the store every request searches
ConcurrentStore == {Chunk1, Chunk2}

\* planning completions of the concurrent requests
ConcurrentPlans ==
    {[kind |-> "array", items |-> ExamplePlan],
     [kind |-> "array", items |-> <<StepCalculateY, StepRetrieveX>>],
     [kind |-> "error", items |-> <<>>]}

\* retrieval planning completions of the concurrent requests
ConcurrentResponses ==
    {JsonResponse({"search_queries", "filters"}, <<"net profit">>, FilterQ1),
     MalformedResponse}

\* calculation completions of the concurrent requests
ConcurrentCompletions ==
    {CalcObject(<<"a", "+", "b">>, <<<<VarA, Number(2)>>, <<VarB, Number(3)>>>>),
     CalcRaises}

\* completions of a synthesis visit: the answer and its validation
ConcurrentSyntheses ==
    {[answered |-> "answer", validated |-> "valid"],
     [answered |-> "answer", validated |-> "non_object"],
     [answered |-> "raise", validated |-> "failed"]}

\* execute_retrieval over the store and the requests' query texts, evaluated once
ConcurrentRetrieval ==
    [st \in {ConcurrentStore}, q \in QueryIds, resp \in ConcurrentResponses |->
        execute_retrieval(st, QueryText(q), resp)]

\* lines 314-323: the AgentState execute_query builds for a call
initial_state(text) ==
    [query |-> text, plan |-> <<>>, context |-> <<>>, current_step |-> 0,
     final_answer |-> PyNone, retrieval_history |-> <<>>,
     calculation_results |-> <<>>, node |-> "orchestrator"]

\* _orchestrator_node on a state, then the edge chosen by should_continue
orchestrator_node(st, out) ==
    LET updated == IF PlanMissing(st.plan)
                   THEN [st EXCEPT !.plan = create_plan(out), !.current_step = 0,
                                   !.context = <<>>, !.retrieval_history = <<>>,
                                   !.calculation_results = <<>>]
                   ELSE [st EXCEPT !.current_step = NextStep(st.current_step)]
    IN [updated EXCEPT !.node = should_continue(updated.plan, updated.current_step)]

\* _retrieval_node on a state, then _should_continue_after_retrieval
retrieval_node(st, results) ==
    LET step_text == current_step_text(st.plan, st.current_step)
    IN [st EXCEPT
          !.context = st.context \o <<RetrievalItem(step_text, results, st.context)>>,
          !.retrieval_history = st.retrieval_history \o
              <<[step |-> st.current_step, query |-> step_text,
                 results_count |-> Len(results),
                 timestamp |-> Len(st.retrieval_history)]>>,
          !.node = should_continue_after_retrieval(st.plan, st.current_step)]

\* _calculation_node on a state, then _should_continue_after_calculation
calculation_node(st, calculation_result) ==
    LET step_text == current_step_text(st.plan, st.current_step)
    IN [st EXCEPT
          !.context = CalculationContext(st.context,
              [type |-> "calculation_result", step |-> step_text,
               result |-> calculation_result, timestamp |-> Len(st.context)]),
          !.calculation_results =
              WithKey(st.calculation_results, CalculationKey(st.current_step),
                      calculation_result),
          !.node = should_continue_after_calculation(st.plan, st.current_step)]

\* _synthesis_node on a state: it raises and returns nothing, or returns and
\* the edge to END is taken
synthesis_node(st, answered, validated) ==
    IF SynthesisFails(answered, validated) THEN [st EXCEPT !.node = "raised"]
    ELSE [st EXCEPT
            !.final_answer = "answer",
            !.context = st.context \o
                <<[type |-> "final_synthesis", answer |-> "answer",
                   validation |-> validate_answer(validated),
                   timestamp |-> Len(st.context)]>>,
            !.node = AfterSynthesis(st.plan, st.current_step)]

\* what a collaborator gave to a node execution of a request
Reply(kind, value) == [kind |-> kind, value |-> value]

StateOnWorkflow(q) == 1

\* the state a call of execute_query runs on: graph.invoke(initial_state)
\* keeps the state of the call it was given, one per call
StateOf(q) == q

\* the request has called execute_query
Started(q) == replies[q] # <<>>

\* the node due in the request's graph.invoke
NodeOf(q) == IF Started(q) THEN states[StateOf(q)].node ELSE "idle"

\* the request's node execution leaves st, having been given the reply r
Executed(q, st, r) ==
    /\ states' = [states EXCEPT ![StateOf(q)] = st]
    /\ replies' = [replies EXCEPT ![q] = Append(replies[q], r)]
    /\ UNCHANGED <<workflow_vars, search_log, last_retrieval, last_calculation,
                   last_plan, chunker_vars, store>>

\* execute_query entering the graph for a request
ExecuteQuery(q) ==
    /\ ~Started(q)
    /\ Executed(q, initial_state(QueryText(q)), Reply("start", QueryText(q)))

\* the orchestrator node of a request
OrchestratorOf(q) ==
    /\ NodeOf(q) = "orchestrator"
    /\ IF PlanMissing(states[StateOf(q)].plan)
       THEN \E out \in ConcurrentPlans :
               Executed(q, orchestrator_node(states[StateOf(q)], out),
                        Reply("plan", out))
       ELSE Executed(q, orchestrator_node(states[StateOf(q)], <<>>),
                     Reply("none", <<>>))

\* the retrieval node of a request, searching the shared store
RetrievalOf(q) ==
    /\ NodeOf(q) = "retrieval"
    /\ \E resp \in ConcurrentResponses :
          Executed(q, retrieval_node(states[StateOf(q)],
                                     ConcurrentRetrieval[store, q, resp].results),
                   Reply("retrieval", resp))

\* the calculation node of a request
CalculationOf(q) ==
    /\ NodeOf(q) = "calculation"
    /\ \E completion \in ConcurrentCompletions :
          Executed(q, calculation_node(states[StateOf(q)], calculate(completion)),
                   Reply("calculation", completion))

\* the synthesis node of a request
SynthesisOf(q) ==
    /\ NodeOf(q) = "synthesis"
    /\ \E given_by \in ConcurrentSyntheses :
          Executed(q, synthesis_node(states[StateOf(q)], given_by.answered,
                                     given_by.validated),
                   Reply("synthesis", given_by))

InitConcurrent ==
    /\ query \in UserQueries
    /\ plan = <<>>
    /\ context = <<>>
    /\ current_step = 0
    /\ final_answer = PyNone
    /\ validation = PyNone
    /\ retrieval_history = <<>>
    /\ calculation_results = <<>>
    /\ node = "orchestrator"
    /\ trace = <<>>
    /\ plans_created = 0
    /\ store = ConcurrentStore
    /\ search_log = <<>>
    /\ last_retrieval = NoRetrieval
    /\ last_calculation = NoCalculation
    /\ last_synthesis = NoSynthesis
    /\ exception = NoException
    /\ response = NoResponse
    /\ document = NoDocument
    /\ sections = <<>>
    /\ pending = <<>>
    /\ all_chunks = <<>>
    /\ uuids = 0
    /\ pc = "idle"
    /\ call_log = <<>>
    /\ last_search = NoSearch
    /\ last_plan = NoPlan
    /\ states = NoStates
    /\ replies = NoReplies

NextConcurrent ==
    \E q \in QueryIds :
        \/ ExecuteQuery(q)
        \/ OrchestratorOf(q)
        \/ RetrievalOf(q)
        \/ CalculationOf(q)
        \/ SynthesisOf(q)

SpecConcurrent == InitConcurrent /\ [][NextConcurrent]_vars

---------------------------------------------------------------------------
(* Properties of concurrent queries: C31 *)

\* the node execution a reply was given to, run on a state of the request's own
RunNode(st, q, r) ==
    CASE st.node = "idle" /\ r.kind = "start" -> initial_state(r.value)
      [] st.node = "orchestrator" /\ r.kind \in {"plan", "none"} ->
           orchestrator_node(st, r.value)
      [] st.node = "retrieval" /\ r.kind = "retrieval" ->
           retrieval_node(st, ConcurrentRetrieval[ConcurrentStore, q, r.value].results)
      [] st.node = "calculation" /\ r.kind = "calculation" ->
           calculation_node(st, calculate(r.value))
      [] st.node = "synthesis" /\ r.kind = "synthesis" ->
           synthesis_node(st, r.value.answered, r.value.validated)
      [] OTHER -> [node |-> "diverged"]

RECURSIVE RunAlone(_, _)
\* the state the request reaches when it runs alone and its collaborators give
\* the replies of the log, in this order
RunAlone(q, log) ==
    IF log = <<>> THEN [node |-> "idle"]
    ELSE RunNode(RunAlone(q, SubSeq(log, 1, Len(log) - 1)), q, log[Len(log)])

\* C31: when several queries run concurrently on one workflow object and one
\* chunk store, the workflow state of a query (plan, current_step, context,
\* retrieval_history, calculation_results, final_answer) is changed only by
\* that query's own node executions, and under every interleaving the query is
\* in, and so ends in, the state it reaches when run alone with the same
\* collaborator responses.
C31_QueriesIndependent ==
    /\ [](\A q \in QueryIds : states[q] = RunAlone(q, replies[q]))
    /\ [][\A q \in QueryIds : replies'[q] = replies[q] => states'[q] = states[q]]_vars

C31_Witness ==
    /\ states[1].node = "finish"
    /\ states[1].plan = ExamplePlan
    /\ states[1].final_answer = "answer"
    /\ Len(states[1].context) = 3
    /\ states[2].node = "raised"
    /\ states[2].plan = ExamplePlan
    /\ Len(states[2].context) = 2
    /\ states[2].context[1].results # states[1].context[1].results
    /\ states[2].calculation_results # states[1].calculation_results

=============================================================================
